---- MODULE Spec2Model ----
(***************************************************************************)
(* Model of the puzzle results formatter (src/formatter.py and the         *)
(* formatters of src/puzzle_formatters/).                                  *)
(*                                                                         *)
(* A text is a sequence of atoms.  An atom is one character ("1", ",",     *)
(* " ", "\n", an emoji) or one literal word of a share text ("Wordle",     *)
(* "Pips", "Easy"), so that splitting at spaces, searching a newline and   *)
(* stripping commas are computed on the text and not assumed.              *)
(***************************************************************************)
EXTENDS Integers, Sequences, FiniteSets, TLC

VARIABLES
    input_text,            \* the text process_puzzle_results is given
    blocks,                \* split_into_puzzle_blocks(input_text)
    block_index,           \* the position of the loop over blocks
    block_formatter,       \* formatter = get_formatter_for_text(block)
    puzzle_order,          \* config.get('puzzle_order', [])
    puzzles,               \* detect_and_parse_puzzles(input_text)
    sorted_puzzles,        \* sort_puzzles_by_config(puzzles, puzzle_order)
    deduplicated_puzzles,  \* deduplicate_puzzles(sorted_puzzles)
    aggregated_puzzles,    \* aggregate_pips_puzzles(deduplicated_puzzles)
    output,                \* the value process_puzzle_results returns
    pc,                    \* position inside process_puzzle_results
    config,                \* config.json as load_config finds it
    all_puzzles_text,      \* the captures of interactive_mode
    clipboard,             \* the content of the system clipboard
    accumulated_lines,     \* the lines given to is_complete
    complete,              \* the value is_complete returns
    process_data           \* puzzle_data of BasePuzzleFormatter.process

\* the state outside process_puzzle_results
front_end == <<config, all_puzzles_text, clipboard, accumulated_lines,
               complete, process_data>>

vars == <<input_text, blocks, block_index, block_formatter, puzzle_order,
          puzzles, sorted_puzzles, deduplicated_puzzles, aggregated_puzzles,
          output, pc, front_end>>

(***************************************************************************)
(* Bounds of the model.                                                    *)
(***************************************************************************)
MaxPuzzles == 3

MaxPieces == 2

MaxLines == 3

(***************************************************************************)
(* Constants of formatter.py.                                              *)
(***************************************************************************)
UNKNOWN_PUZZLE_PRIORITY == 9999

PIPS_DIFFICULTY_ORDER == [Easy |-> 1, Medium |-> 2, Hard |-> 3]

NO_PUZZLES_MESSAGE == <<"No recognized puzzles found in input.">>

(***************************************************************************)
(* Python string and list primitives on texts.                             *)
(***************************************************************************)
NL == "\n"

SP == " "

Digits == {"0", "1", "2", "3", "4", "5", "6", "7", "8", "9"}

Whitespace == {SP, NL, "\t"}

\* a in text
Contains(text, a) == \E i \in 1..Len(text) : text[i] = a

\* sep.join(parts)
RECURSIVE Join(_, _)
Join(parts, sep) ==
    IF parts = <<>> THEN <<>>
    ELSE IF Len(parts) = 1 THEN parts[1]
    ELSE parts[1] \o sep \o Join(Tail(parts), sep)

\* ''.join(parts)
Concat(parts) == Join(parts, <<>>)

\* text.split(sep, maxsplit); maxsplit = -1 splits at every sep
RECURSIVE Split(_, _, _)
Split(text, sep, maxsplit) ==
    IF maxsplit = 0 \/ ~Contains(text, sep) THEN <<text>>
    ELSE LET i == CHOOSE k \in 1..Len(text) :
                     /\ text[k] = sep
                     /\ \A j \in 1..(k - 1) : text[j] # sep
         IN  <<SubSeq(text, 1, i - 1)>>
                 \o Split(SubSeq(text, i + 1, Len(text)), sep, maxsplit - 1)

\* text.replace(a, '')
RECURSIVE Remove(_, _)
Remove(text, a) ==
    IF text = <<>> THEN <<>>
    ELSE IF Head(text) = a THEN Remove(Tail(text), a)
    ELSE <<Head(text)>> \o Remove(Tail(text), a)

\* hash(text): equal texts have equal hashes, and a hash (an int) never
\* equals a puzzle number (a str)
Hash(text) == <<"hash">> \o text

\* a sort that is ascending but reverses the elements of equal key
sorted_unstable(seq, keys) ==
    LET n == Len(seq)
        Before(j, i) == keys[j] < keys[i] \/ (keys[j] = keys[i] /\ j > i)
        Rank(i) == 1 + Cardinality({j \in 1..n : Before(j, i)})
    IN  [p \in 1..n |-> seq[CHOOSE i \in 1..n : Rank(i) = p]]

\* sorted(seq, key=...) with keys[i] the key of seq[i]: ascending and stable
sorted(seq, keys) ==
    LET n == Len(seq)
        Before(j, i) == keys[j] < keys[i] \/ (keys[j] = keys[i] /\ j < i)
        Rank(i) == 1 + Cardinality({j \in 1..n : Before(j, i)})
    IN  [p \in 1..n |-> seq[CHOOSE i \in 1..n : Rank(i) = p]]

(***************************************************************************)
(* re.search(word \s+ ([class]+), text).group(1): the first occurrence of  *)
(* the literal word followed by at least one whitespace and at least one   *)
(* atom of class; <<>> stands for "no match".                              *)
(***************************************************************************)
MatchEnd(text, from, class) ==
    \* last index of the maximal run of class atoms starting at from
    CHOOSE e \in from..Len(text) :
        /\ \A k \in from..e : text[k] \in class
        /\ (e = Len(text) \/ text[e + 1] \notin class)

\* spaced: the pattern has \s+ between the word and the group
SearchWordNumber(word, spaced, class, text) ==
    LET n == Len(text)
        \* the index where the group starts for a match at i, or 0
        GroupStart(i) ==
            IF ~spaced THEN (IF i + 1 <= n /\ text[i + 1] \in class
                             THEN i + 1 ELSE 0)
            ELSE LET Ends == {s \in (i + 1)..n :
                                 /\ \A k \in (i + 1)..s : text[k] \in Whitespace
                                 /\ s + 1 <= n
                                 /\ text[s + 1] \in class}
                 IN  IF Ends = {} THEN 0 ELSE 1 + CHOOSE s \in Ends : TRUE
        Starts == {i \in 1..n : text[i] = word /\ GroupStart(i) # 0}
    IN  IF Starts = {} THEN <<>>
        ELSE LET i == CHOOSE k \in Starts : \A m \in Starts : k <= m
             IN  SubSeq(text, GroupStart(i), MatchEnd(text, GroupStart(i), class))

(***************************************************************************)
(* Regular expressions on texts.  A pattern is a sequence of elements; an  *)
(* element consumes one atom (op "one"), one or more ("plus") or zero or   *)
(* more ("star") atoms of a class, the class being the atoms in set or,    *)
(* when neg, the atoms not in set.  Repetition is greedy and backtracks.   *)
(***************************************************************************)
Lit(a) == [op |-> "one", neg |-> FALSE, set |-> {a}]

One(class) == [op |-> "one", neg |-> FALSE, set |-> class]

Plus(class) == [op |-> "plus", neg |-> FALSE, set |-> class]

Star(class) == [op |-> "star", neg |-> FALSE, set |-> class]

\* [^class]+
PlusNot(class) == [op |-> "plus", neg |-> TRUE, set |-> class]

\* the pattern of a literal text
Lits(text) == [i \in 1..Len(text) |-> Lit(text[i])]

\* the positions right after a match of pattern that starts at i
RECURSIVE Ends(_, _, _)
Ends(pattern, text, i) ==
    IF pattern = <<>> THEN {i}
    ELSE LET e == Head(pattern)
             In(k) == k <= Len(text) /\ (text[k] \in e.set) # e.neg
             \* the positions after the runs of atoms of the class from i
             Run == {j \in i..(Len(text) + 1) : \A k \in i..(j - 1) : In(k)}
             After == CASE e.op = "one" -> IF In(i) THEN {i + 1} ELSE {}
                        [] e.op = "plus" -> IF In(i) THEN Run \ {i} ELSE {}
                        [] e.op = "star" -> IF In(i) THEN Run ELSE {i}
         IN  UNION {Ends(Tail(pattern), text, j) : j \in After}

\* pattern.match at position i
MatchAt(pattern, text, i) == Ends(pattern, text, i) # {}

\* re.search(pattern, text): the start of the leftmost match, 0 for None
re_search(pattern, text) ==
    LET Starts == {i \in 1..(Len(text) + 1) : MatchAt(pattern, text, i)}
    IN  IF Starts = {} THEN 0
        ELSE CHOOSE i \in Starts : \A j \in Starts : i <= j

\* the position right after the greedy match at i of a pattern that has
\* a match there: the longest one, the patterns used leaving a choice of
\* length to their last element only
MatchStop(pattern, text, i) ==
    LET E == Ends(pattern, text, i)
    IN  CHOOSE j \in E : \A k \in E : k <= j

\* the maximal run of class atoms from position from, the text a (\d+)
\* group captures there
Group(text, from, class) ==
    SubSeq(text, from, MatchEnd(text, from, class))

\* sub in text
HasSubstring(text, sub) == re_search(Lits(sub), text) # 0

\* text.startswith(prefix)
StartsWith(text, prefix) ==
    Len(text) >= Len(prefix) /\ SubSeq(text, 1, Len(prefix)) = prefix

\* text.strip()
strip(text) ==
    LET Inked == {i \in 1..Len(text) : text[i] \notin Whitespace}
    IN  IF Inked = {} THEN <<>>
        ELSE SubSeq(text, CHOOSE i \in Inked : \A j \in Inked : i <= j,
                          CHOOSE i \in Inked : \A j \in Inked : j <= i)

(***************************************************************************)
(* The formatters: the record parse() returns and the text format()        *)
(* renders.  None is the empty text (both are falsy in Python).            *)
(***************************************************************************)
None == <<>>

\* FramedFormatter.parse / FramedOneFrameFormatter.parse
FramedParsed(title, emoji_grid, raw_text) ==
    [title |-> title, emoji_grid |-> emoji_grid, raw_text |-> raw_text]

\* FramedFormatter.format / FramedOneFrameFormatter.format
FramedFormat(puzzle_data) == puzzle_data.title \o puzzle_data.emoji_grid

\* WordleFormatter.parse
WordleParsed(title, grid_lines, raw_text) ==
    [title |-> title, grid_lines |-> grid_lines, raw_text |-> raw_text]

\* WordleFormatter.format
WordleFormat(puzzle_data) ==
    Join(<<puzzle_data.title>> \o puzzle_data.grid_lines, <<NL>>)

\* QuoltureFormatter.parse
QuoltureParsed(lines, raw_text) == [lines |-> lines, raw_text |-> raw_text]

\* QuoltureFormatter.format
QuoltureFormat(puzzle_data) == Join(puzzle_data.lines, <<SP>>)

\* ConnectionsFormatter.parse
ConnectionsParsed(puzzle_number, grid_lines, raw_text) ==
    [puzzle_number |-> puzzle_number, grid_lines |-> grid_lines,
     raw_text |-> raw_text]

\* ConnectionsFormatter.format
ConnectionsFormat(puzzle_data) ==
    Join(<<<<"Connections", SP, "#">> \o puzzle_data.puzzle_number>>
            \o puzzle_data.grid_lines, <<NL>>)

\* StrandsFormatter.parse
StrandsParsed(puzzle_number, theme, emoji_lines, raw_text) ==
    [puzzle_number |-> puzzle_number, theme |-> theme,
     emoji_lines |-> emoji_lines, raw_text |-> raw_text]

\* StrandsFormatter.format
StrandsFormat(parsed_data) ==
    Join(<<<<"Strands", SP, "#">> \o parsed_data.puzzle_number>>
            \o (IF parsed_data.theme # None
                THEN <<parsed_data.theme>> ELSE <<>>)
            \o (IF parsed_data.emoji_lines # <<>>
                THEN <<Concat(parsed_data.emoji_lines)>> ELSE <<>>),
         <<NL>>)

\* PipsFormatter.parse
PipsParsed(puzzle_number, difficulty, emoji, time, raw_text) ==
    [puzzle_number |-> puzzle_number, difficulty |-> difficulty,
     emoji |-> emoji, time |-> time, raw_text |-> raw_text]

\* PipsFormatter.format
PipsFormat(puzzle_data) ==
    <<"Pips", SP, "#">> \o puzzle_data.puzzle_number
        \o <<SP, puzzle_data.difficulty, SP, puzzle_data.emoji, SP>>
        \o puzzle_data.time

\* WaffleFormatter.parse
WaffleParsed(title, puzzle_number, grid_lines, streak_info, raw_text) ==
    [title |-> title, puzzle_number |-> puzzle_number,
     grid_lines |-> grid_lines, streak_info |-> streak_info,
     raw_text |-> raw_text]

\* WaffleFormatter.format
WaffleFormat(puzzle_data) ==
    Join(<<puzzle_data.title>> \o puzzle_data.grid_lines
            \o (IF puzzle_data.streak_info # None
                THEN <<puzzle_data.streak_info>> ELSE <<>>),
         <<NL>>)

\* formatter.puzzle_name of each formatter class
PuzzleName ==
    [FramedFormatter |-> "framed_regular",
     FramedOneFrameFormatter |-> "framed_oneframe",
     WordleFormatter |-> "wordle",
     QuoltureFormatter |-> "quolture",
     ConnectionsFormatter |-> "connections",
     StrandsFormatter |-> "strands",
     PipsFormatter |-> "pips",
     WaffleFormatter |-> "waffle"]

Formatters == DOMAIN PuzzleName

\* formatter.format(data), dispatched on the formatter's class
Format(formatter, data) ==
    CASE formatter \in {"FramedFormatter", "FramedOneFrameFormatter"} ->
            FramedFormat(data)
      [] formatter = "WordleFormatter" -> WordleFormat(data)
      [] formatter = "QuoltureFormatter" -> QuoltureFormat(data)
      [] formatter = "ConnectionsFormatter" -> ConnectionsFormat(data)
      [] formatter = "StrandsFormatter" -> StrandsFormat(data)
      [] formatter = "PipsFormatter" -> PipsFormat(data)
      [] formatter = "WaffleFormatter" -> WaffleFormat(data)

\* the dictionary detect_and_parse_puzzles appends for a parsed block
Detected(formatter, puzzle_data) ==
    [formatter |-> formatter, data |-> puzzle_data,
     puzzle_name |-> PuzzleName[formatter]]

(***************************************************************************)
(* formatter.py: ordering, deduplication, aggregation, serialization.      *)
(***************************************************************************)
\* a sort key that counts the position from the end of the configured order
get_sort_key_from_end(puzzle, order) ==
    LET At == {i \in 1..Len(order) : order[i] = puzzle.puzzle_name}
    IN  IF At # {}
        THEN Len(order) - (CHOOSE i \in At : \A j \in At : i <= j)
        ELSE UNKNOWN_PUZZLE_PRIORITY

\* sort_puzzles_by_config.get_sort_key: puzzle_order.index(puzzle_name),
\* or UNKNOWN_PUZZLE_PRIORITY on ValueError
get_sort_key(puzzle, order) ==
    LET At == {i \in 1..Len(order) : order[i] = puzzle.puzzle_name}
    IN  IF At # {}
        THEN (CHOOSE i \in At : \A j \in At : i <= j) - 1
        ELSE UNKNOWN_PUZZLE_PRIORITY

sort_puzzles_by_config(ps, order) ==
    sorted(ps, [i \in 1..Len(ps) |-> get_sort_key(ps[i], order)])

\* an identity of the type alone for the types that carry a puzzle_number
\* field, and of the raw text for the others
identity_without_number(puzzle) ==
    IF "puzzle_number" \in DOMAIN puzzle.data
    THEN <<puzzle.puzzle_name>>
    ELSE <<puzzle.puzzle_name, Hash(puzzle.data.raw_text)>>

\* an identity that leaves out the type: the puzzle number where the record
\* carries one, the raw text otherwise
identity_without_name(puzzle) ==
    IF "puzzle_number" \in DOMAIN puzzle.data
    THEN <<puzzle.data.puzzle_number>>
    ELSE <<Hash(puzzle.data.raw_text)>>

_get_puzzle_identity(puzzle) ==
    LET puzzle_name == puzzle.puzzle_name
        data == puzzle.data
        fallback == <<puzzle_name, Hash(data.raw_text)>>
    IN  CASE puzzle_name = "pips" ->
                <<puzzle_name, data.puzzle_number, data.difficulty>>
          [] puzzle_name = "wordle" ->
                LET match == SearchWordNumber("Wordle", TRUE,
                                              Digits \cup {","}, data.title)
                IN  IF match # <<>>
                    THEN <<puzzle_name, Remove(match, ",")>>
                    ELSE fallback
          [] puzzle_name \in {"framed", "framed_one_frame"} ->
                IF "puzzle_number" \in DOMAIN data
                THEN <<puzzle_name, data.puzzle_number>>
                ELSE LET match == SearchWordNumber("#", FALSE, Digits,
                                                   data.raw_text)
                     IN  IF match # <<>> THEN <<puzzle_name, match>>
                         ELSE fallback
          [] puzzle_name \in {"connections", "strands", "waffle"} ->
                <<puzzle_name, IF "puzzle_number" \in DOMAIN data
                               THEN data.puzzle_number ELSE <<>> >>
          [] puzzle_name = "quolture" ->
                LET match == IF data.lines # <<>>
                             THEN SearchWordNumber("\"Quolture\"", TRUE,
                                                   Digits, data.lines[1])
                             ELSE <<>>
                IN  IF match # <<>> THEN <<puzzle_name, match>>
                    ELSE fallback
          [] OTHER -> fallback

\* the loop of deduplicate_puzzles over the rest of the list
RECURSIVE dedup_loop(_, _, _)
dedup_loop(rest, seen_identities, unique_puzzles) ==
    IF rest = <<>> THEN unique_puzzles
    ELSE LET identity == _get_puzzle_identity(Head(rest))
         IN  IF identity \notin seen_identities
             THEN dedup_loop(Tail(rest), seen_identities \cup {identity},
                             Append(unique_puzzles, Head(rest)))
             ELSE dedup_loop(Tail(rest), seen_identities, unique_puzzles)

\* a deduplication that keeps the last record of each identity
deduplicate_keeping_last(ps) ==
    LET Reverse(q) == [i \in 1..Len(q) |-> q[Len(q) + 1 - i]]
    IN  Reverse(dedup_loop(Reverse(ps), {}, <<>>))

\* a deduplication that never records the identities it has seen
deduplicate_never_seen(ps) == ps

deduplicate_puzzles(ps) == dedup_loop(ps, {}, <<>>)

\* the loop of _combine_pips_group over the members sorted by difficulty
RECURSIVE combine_loop(_, _)
combine_loop(rest, formatted_parts) ==
    IF rest = <<>> THEN formatted_parts
    ELSE LET formatted == Format(Head(rest).formatter, Head(rest).data)
             parts == Split(formatted, SP, 2)
             shown == IF formatted_parts # <<>> /\ Len(parts) >= 3
                      THEN parts[3] ELSE formatted
         IN  combine_loop(Tail(rest), Append(formatted_parts, shown))

\* a combination that keeps the members in the order of the list
combine_pips_group_unsorted(pips_puzzles) ==
    [puzzle_name |-> "pips", formatter |-> pips_puzzles[1].formatter,
     data |-> pips_puzzles[1].data,
     formatted |-> Join(combine_loop(pips_puzzles, <<>>), <<SP, "|", SP>>)]

\* a combination that joins the full rendering of every member
combine_pips_group_with_prefix(pips_puzzles) ==
    LET rank(p) == PIPS_DIFFICULTY_ORDER[p.data.difficulty]
        sorted_pips == sorted(pips_puzzles,
                              [i \in 1..Len(pips_puzzles) |->
                                  rank(pips_puzzles[i])])
    IN  [puzzle_name |-> "pips", formatter |-> sorted_pips[1].formatter,
         data |-> sorted_pips[1].data,
         formatted |-> Join([i \in 1..Len(sorted_pips) |->
                               Format(sorted_pips[i].formatter,
                                      sorted_pips[i].data)],
                            <<SP, "|", SP>>)]

_combine_pips_group(pips_puzzles) ==
    LET rank(p) == IF p.data.difficulty \in DOMAIN PIPS_DIFFICULTY_ORDER
                   THEN PIPS_DIFFICULTY_ORDER[p.data.difficulty] ELSE 999
        sorted_pips == sorted(pips_puzzles,
                              [i \in 1..Len(pips_puzzles) |->
                                  rank(pips_puzzles[i])])
        combined_formatted == Join(combine_loop(sorted_pips, <<>>),
                                   <<SP, "|", SP>>)
        first_puzzle == sorted_pips[1]
    IN  [puzzle_name |-> "pips", formatter |-> first_puzzle.formatter,
         data |-> first_puzzle.data, formatted |-> combined_formatted]

\* the loop of aggregate_pips_puzzles and its final flush
RECURSIVE aggregate_loop(_, _, _)
aggregate_loop(rest, result, pips_group) ==
    IF rest = <<>>
    THEN IF pips_group # <<>>
         THEN Append(result, _combine_pips_group(pips_group))
         ELSE result
    ELSE IF Head(rest).puzzle_name = "pips"
         THEN aggregate_loop(Tail(rest), result, Append(pips_group, Head(rest)))
         ELSE aggregate_loop(Tail(rest),
                 Append(IF pips_group # <<>>
                        THEN Append(result, _combine_pips_group(pips_group))
                        ELSE result,
                        Head(rest)),
                 <<>>)

aggregate_pips_puzzles(ps) ==
    IF ps = <<>> THEN ps ELSE aggregate_loop(ps, <<>>, <<>>)

\* the text format_output renders for one record
Rendered(puzzle) ==
    IF "formatted" \in DOMAIN puzzle THEN puzzle.formatted
    ELSE Format(puzzle.formatter, puzzle.data)

\* the loop of format_output
RECURSIVE format_loop(_, _)
format_loop(rest, formatted_parts) ==
    IF rest = <<>> THEN formatted_parts
    ELSE LET puzzle == Head(rest)
             formatted == Rendered(puzzle)
             is_multiline == Contains(formatted, NL)
             separated ==
                 IF (is_multiline \/ puzzle.puzzle_name = "pips")
                        /\ formatted_parts # <<>>
                 THEN Append(formatted_parts, <<>>)
                 ELSE formatted_parts
         IN  format_loop(Tail(rest), Append(separated, formatted))

\* a serialization that separates multi-line records only
RECURSIVE format_loop_multiline_only(_, _)
format_loop_multiline_only(rest, formatted_parts) ==
    IF rest = <<>> THEN formatted_parts
    ELSE LET formatted == Rendered(Head(rest))
             separated ==
                 IF Contains(formatted, NL) /\ formatted_parts # <<>>
                 THEN Append(formatted_parts, <<>>)
                 ELSE formatted_parts
         IN  format_loop_multiline_only(Tail(rest),
                                        Append(separated, formatted))

format_output_multiline_only(ps) ==
    IF ps = <<>> THEN <<>>
    ELSE Join(format_loop_multiline_only(ps, <<>>), <<NL>>)

\* a serialization that puts the blank line behind the multi-line and the
\* Pips records
RECURSIVE format_loop_separating_after(_, _)
format_loop_separating_after(rest, formatted_parts) ==
    IF rest = <<>> THEN formatted_parts
    ELSE LET puzzle == Head(rest)
             formatted == Rendered(puzzle)
             with_record == Append(formatted_parts, formatted)
         IN  format_loop_separating_after(
                 Tail(rest),
                 IF Contains(formatted, NL) \/ puzzle.puzzle_name = "pips"
                 THEN Append(with_record, <<>>)
                 ELSE with_record)

format_output_separating_after(ps) ==
    IF ps = <<>> THEN <<>>
    ELSE Join(format_loop_separating_after(ps, <<>>), <<NL>>)

format_output(ps) ==
    IF ps = <<>> THEN <<>> ELSE Join(format_loop(ps, <<>>), <<NL>>)

(***************************************************************************)
(* formatter.py: segmentation of the input text into candidate blocks.     *)
(***************************************************************************)
\* the marker split_into_puzzle_blocks writes at a break and splits at
PUZZLE_SEPARATOR == "{PUZZLE_SEPARATOR}"

\* the patterns of the known puzzle headers, without their ^ anchor
puzzle_headers ==
    << <<Lit("Framed"), One(Whitespace)>>,
       <<Lit("Wordle"), One(Whitespace)>>,
       <<Lit("Connections"), Star(Whitespace), Lit(NL)>>,
       <<Lit("\"Quolture\"")>>,
       <<Lit("Strands"), One(Whitespace)>>,
       <<Lit("Pips"), One(Whitespace)>>,
       <<Lit("#waffle"), Plus(Digits)>> >>

\* https?://[^\s]+
url_pattern == <<One({"http:", "https:"}), Lit("//"), PlusNot(Whitespace)>>

\* ^ under re.MULTILINE: the start of the text or the position after a \n
AtLineStart(text, i) == i = 1 \/ text[i - 1] = NL

\* text with the marker written before each of the positions
RECURSIVE with_separators(_, _)
with_separators(text, positions) ==
    IF positions = {} THEN text
    ELSE LET last == CHOOSE m \in positions : \A k \in positions : k <= m
         IN  with_separators(SubSeq(text, 1, last - 1), positions \ {last})
                 \o <<PUZZLE_SEPARATOR>> \o SubSeq(text, last, Len(text))

\* re.sub('(?=^header)', PUZZLE_SEPARATOR, text, flags=re.MULTILINE)
sub_header(header, text) ==
    with_separators(text, {i \in 1..Len(text) :
                              AtLineStart(text, i) /\ MatchAt(header, text, i)})

\* the loop over puzzle_headers
RECURSIVE sub_headers(_, _)
sub_headers(headers, text_with_delimiters) ==
    IF headers = <<>> THEN text_with_delimiters
    ELSE sub_headers(Tail(headers),
                     sub_header(Head(headers), text_with_delimiters))

\* re.sub(url_pattern, '\n' + PUZZLE_SEPARATOR + '\n', text): the matches
\* from left to right, none overlapping
RECURSIVE sub_urls(_)
sub_urls(text) ==
    LET i == re_search(url_pattern, text)
    IN  IF i = 0 THEN text
        ELSE SubSeq(text, 1, i - 1) \o <<NL, PUZZLE_SEPARATOR, NL>>
                \o sub_urls(SubSeq(text, MatchStop(url_pattern, text, i),
                                   Len(text)))

\* a segmentation that trims the blocks and keeps the empty ones
split_keeping_empty(text) ==
    LET with_headers == sub_headers(puzzle_headers, text)
        text_with_delimiters == sub_urls(with_headers)
        segments == Split(text_with_delimiters, PUZZLE_SEPARATOR, -1)
    IN  [i \in 1..Len(segments) |-> strip(segments[i])]

split_into_puzzle_blocks(text) ==
    LET with_headers == sub_headers(puzzle_headers, text)
        text_with_delimiters == sub_urls(with_headers)
        segments == Split(text_with_delimiters, PUZZLE_SEPARATOR, -1)
        Kept(b) == strip(b) # <<>>
    IN  SelectSeq([i \in 1..Len(segments) |-> strip(segments[i])], Kept)

(***************************************************************************)
(* The formatters: detection (can_parse) and extraction (parse) from the   *)
(* text of a block.                                                        *)
(***************************************************************************)
\* the emoji of the grids
ConnectionsEmoji == {"sqB", "sqP", "sqG", "sqY"}

\* strands.py and waffle.py hold their emoji as the characters that the
\* emoji's UTF-8 bytes give in a one-byte code page: the classes of their
\* patterns are these characters, one atom per code point
StrandsEmoji == {"U+011F", "U+0178", "U+201D", "U+00B5", "U+00A1", "U+2019"}

WaffleEmoji ==
    {"U+011F", "U+0178", "U+00A9", "U+00E2", "U+00AC", "U+0153", "U+00AD"}

\* the prefix of the streak line in WaffleFormatter.parse
StreakPrefix == <<"U+011F", "U+0178", "U+201D", "U+00A5", SP, "streak", ":">>

\* the atoms that start with 'http'
HttpAtoms == {"http:", "https:"}

\* the atoms that start and end with a double quote
QuotedAtoms == {"\"", "\"Quolture\""}

\* formatter.detection_pattern of each formatter class
detection_pattern ==
    [ConnectionsFormatter |->
        <<Lit("Connections"), Star(Whitespace), Lit(NL)>>
            \o Lits(<<"Puzzle", SP, "#">>) \o <<Plus(Digits)>>,
     FramedFormatter |-> Lits(<<"Framed", SP, "#">>) \o <<Plus(Digits)>>,
     FramedOneFrameFormatter |->
        Lits(<<"Framed", SP, "-", SP, "One", SP, "Frame", SP, "Challenge",
               SP, "#">>) \o <<Plus(Digits)>>,
     QuoltureFormatter |->
        <<Lit("\"Quolture\""), Plus(Whitespace), Plus(Digits)>>,
     StrandsFormatter |-> Lits(<<"Strands", SP, "#">>) \o <<Plus(Digits)>>,
     WordleFormatter |->
        <<Lit("Wordle"), Lit(SP), Plus(Digits), Star(Digits \cup {","}),
          Lit(SP), Plus(Digits), Lit("/"), Plus(Digits)>>,
     PipsFormatter |->
        Lits(<<"Pips", SP, "#">>)
            \o <<Plus(Digits), Lit(SP), One({"Easy", "Medium", "Hard"})>>,
     WaffleFormatter |->
        <<Lit("#waffle"), Plus(Digits), Lit(SP), Plus(Digits), Lit("/"),
          Lit("5")>>]

\* a regular Framed predicate that does not look for the One Frame marker
can_parse_without_exclusion(formatter, text) ==
    re_search(detection_pattern[formatter], text) # 0

\* formatter.can_parse(text)
can_parse(formatter, text) ==
    IF formatter = "FramedFormatter"
    THEN LET has_framed == re_search(detection_pattern[formatter], text) # 0
             has_one_frame == HasSubstring(text, <<"One", SP, "Frame">>)
         IN  has_framed /\ ~has_one_frame
    ELSE re_search(detection_pattern[formatter], text) # 0

\* BasePuzzleFormatter._parse_lines(text, filter_empty): the trimmed lines
\* of the block, the blank ones dropped when filter_empty
_parse_lines(text, filter_empty) ==
    LET split == Split(text, NL, -1)
        lines == [i \in 1..Len(split) |-> strip(split[i])]
        NonEmpty(line) == line # <<>>
    IN  IF filter_empty THEN SelectSeq(lines, NonEmpty) ELSE lines

\* [line for line in lines if not line.startswith('http')]
without_url_lines(lines) ==
    LET NotUrl(line) == ~(line # <<>> /\ line[1] \in HttpAtoms)
    IN  SelectSeq(lines, NotUrl)

\* the first line of lines that the pattern is found in, 0 when none is
first_line_with(pattern, lines) ==
    LET At == {i \in 1..Len(lines) : re_search(pattern, lines[i]) # 0}
    IN  IF At = {} THEN 0 ELSE CHOOSE i \in At : \A j \in At : i <= j

\* re.match('^[class]+$', line)
only_of(class, line) == line # <<>> /\ \A k \in 1..Len(line) : line[k] \in class

\* FramedFormatter.parse / FramedOneFrameFormatter.parse
FramedParse(text) ==
    LET lines == without_url_lines(_parse_lines(text, TRUE))
    IN  IF Len(lines) < 2 THEN None
        ELSE FramedParsed(lines[1], lines[2], text)

\* WordleFormatter.parse
WordleParse(text) ==
    LET lines == without_url_lines(_parse_lines(text, TRUE))
    IN  IF Len(lines) < 2 THEN None
        ELSE WordleParsed(lines[1], Tail(lines), text)

\* QuoltureFormatter.parse
QuoltureParse(text) ==
    LET lines == without_url_lines(_parse_lines(text, TRUE))
    IN  IF Len(lines) < 1 THEN None ELSE QuoltureParsed(lines, text)

\* ConnectionsFormatter.parse
ConnectionsParse(text) ==
    LET lines == _parse_lines(text, TRUE)
        pattern == Lits(<<"Puzzle", SP, "#">>) \o <<Plus(Digits)>>
        at == first_line_with(pattern, lines)
        IsGrid(line) == only_of(ConnectionsEmoji, line)
    IN  IF at = 0 THEN None
        ELSE ConnectionsParsed(
                 Group(lines[at], re_search(pattern, lines[at]) + 3, Digits),
                 SelectSeq(lines, IsGrid), text)

\* StrandsFormatter.parse
StrandsParse(text) ==
    LET lines == _parse_lines(text, TRUE)
        pattern == Lits(<<"Strands", SP, "#">>) \o <<Plus(Digits)>>
        at == first_line_with(pattern, lines)
        Themes == {i \in 1..Len(lines) :
                      /\ lines[i][1] \in QuotedAtoms
                      /\ lines[i][Len(lines[i])] \in QuotedAtoms}
        IsEmoji(line) == only_of(StrandsEmoji, line)
    IN  IF at = 0 THEN None
        ELSE StrandsParsed(
                 Group(lines[at], re_search(pattern, lines[at]) + 3, Digits),
                 IF Themes = {} THEN None
                 ELSE lines[CHOOSE i \in Themes : \A j \in Themes : i <= j],
                 SelectSeq(lines, IsEmoji), text)

\* PipsFormatter.parse
PipsParse(text) ==
    LET lines == _parse_lines(text, TRUE)
        pattern == detection_pattern["PipsFormatter"]
                       \o <<Lit(SP), [op |-> "one", neg |-> TRUE, set |-> {NL}]>>
    IN  IF Len(lines) < 2 THEN None
        ELSE LET title_line == lines[1]
                 i == re_search(pattern, title_line)
                 stop == MatchStop(pattern, title_line, i)
             IN  IF i = 0 THEN None
                 ELSE PipsParsed(Group(title_line, i + 3, Digits),
                                 title_line[stop - 3], title_line[stop - 1],
                                 lines[2], text)

\* WaffleFormatter.parse
WaffleParse(text) ==
    LET lines == _parse_lines(text, FALSE)
        pattern == detection_pattern["WaffleFormatter"]
        at == first_line_with(pattern, lines)
        IsGrid(line) == Len(line) = 5 /\ only_of(WaffleEmoji, line)
        grid_lines == SelectSeq(lines, IsGrid)
        Streaks == {i \in 1..Len(lines) :
                       StartsWith(lines[i], StreakPrefix)}
    IN  IF at = 0 THEN None
        ELSE IF Len(grid_lines) # 5 THEN None
        ELSE LET i == re_search(pattern, lines[at])
             IN  WaffleParsed(
                     SubSeq(lines[at], i,
                            MatchStop(pattern, lines[at], i) - 1),
                     Group(lines[at], i + 1, Digits),
                     grid_lines,
                     IF Streaks = {} THEN None
                     ELSE lines[CHOOSE k \in Streaks :
                                   \A j \in Streaks : k <= j],
                     text)

\* formatter.parse(text), dispatched on the formatter's class
Parse(formatter, text) ==
    CASE formatter \in {"FramedFormatter", "FramedOneFrameFormatter"} ->
            FramedParse(text)
      [] formatter = "WordleFormatter" -> WordleParse(text)
      [] formatter = "QuoltureFormatter" -> QuoltureParse(text)
      [] formatter = "ConnectionsFormatter" -> ConnectionsParse(text)
      [] formatter = "StrandsFormatter" -> StrandsParse(text)
      [] formatter = "PipsFormatter" -> PipsParse(text)
      [] formatter = "WaffleFormatter" -> WaffleParse(text)

(***************************************************************************)
(* puzzle_formatters/__init__.py: the registry.                            *)
(***************************************************************************)
ALL_FORMATTERS ==
    <<"ConnectionsFormatter", "FramedFormatter", "FramedOneFrameFormatter",
      "QuoltureFormatter", "StrandsFormatter", "WordleFormatter">>

\* the value of formatter while no formatter is held
NoFormatter == "None"

\* the loop of get_formatter_for_text over the rest of the registry
RECURSIVE formatter_loop(_, _)
formatter_loop(rest, text) ==
    IF rest = <<>> THEN NoFormatter
    ELSE IF can_parse(Head(rest), text) THEN Head(rest)
    ELSE formatter_loop(Tail(rest), text)

\* a lookup that returns the last formatter whose predicate accepts
get_last_formatter_for_text(text) ==
    LET Reverse(q) == [i \in 1..Len(q) |-> q[Len(q) + 1 - i]]
    IN  formatter_loop(Reverse(ALL_FORMATTERS), text)

get_formatter_for_text(text) == formatter_loop(ALL_FORMATTERS, text)

(***************************************************************************)
(* Share texts the formatters parse: the parsed records of the specs are   *)
(* the records parse() returns for these blocks.                           *)
(***************************************************************************)
\* the text of a block holding these lines
Block(lines) == Join(lines, <<NL>>)

FramedSample(number, emoji_grid) ==
    LET title == <<"Framed", SP, "#">> \o number
    IN  Detected("FramedFormatter",
                 FramedParsed(title, emoji_grid, Block(<<title, emoji_grid>>)))

OneFrameSample(number, emoji_grid) ==
    LET title == <<"Framed", SP, "-", SP, "One", SP, "Frame", SP,
                   "Challenge", SP, "#">> \o number
    IN  Detected("FramedOneFrameFormatter",
                 FramedParsed(title, emoji_grid, Block(<<title, emoji_grid>>)))

WordleSample(number, grid_lines) ==
    LET title == <<"Wordle", SP>> \o number \o <<SP, "4", "/", "6">>
    IN  Detected("WordleFormatter",
                 WordleParsed(title, grid_lines,
                              Block(<<title, <<>> >> \o grid_lines)))

QuoltureSample(number, content) ==
    LET lines == <<<<"\"Quolture\"", SP, SP>> \o number>> \o content
    IN  Detected("QuoltureFormatter", QuoltureParsed(lines, Block(lines)))

ConnectionsSample(number, grid_lines) ==
    Detected("ConnectionsFormatter",
             ConnectionsParsed(number, grid_lines,
                 Block(<<<<"Connections">>, <<"Puzzle", SP, "#">> \o number>>
                          \o grid_lines)))

StrandsSample(number, theme, emoji_lines) ==
    Detected("StrandsFormatter",
             StrandsParsed(number, theme, emoji_lines,
                 Block(<<<<"Strands", SP, "#">> \o number>>
                          \o (IF theme # None THEN <<theme>> ELSE <<>>)
                          \o emoji_lines)))

PipsSample(number, difficulty, emoji, time) ==
    Detected("PipsFormatter",
             PipsParsed(number, difficulty, emoji, time,
                 Block(<<<<"Pips", SP, "#">> \o number
                            \o <<SP, difficulty, SP, emoji>>, time>>)))

WaffleSample(number, grid_lines, streak_info) ==
    LET title == <<"#waffle">> \o number \o <<SP, "1", "/", "5">>
    IN  Detected("WaffleFormatter",
                 WaffleParsed(title, number, grid_lines, streak_info,
                     Block(<<title, <<>> >> \o grid_lines
                              \o (IF streak_info # None
                                  THEN <<streak_info>> ELSE <<>>))))

\* parsed records of single-line, multi-line and Pips renderings, with
\* equal numbers and different content, and with different numbers
SamplePuzzles ==
    { FramedSample(<<"1">>, <<"cam", SP, "R", SP, "G">>),
      FramedSample(<<"1">>, <<"cam", SP, "G">>),
      QuoltureSample(<<"1">>, <<<<"film", ":", SP, "W">>>>),
      WordleSample(<<"1", ",", "2">>, <<<<"B", "Y">>, <<"G", "G">>>>),
      WordleSample(<<"1", "2">>, <<<<"G", "G">>>>),
      WordleSample(<<"3">>, <<<<"G", "G">>>>),
      ConnectionsSample(<<"1">>, <<<<"b", "b">>, <<"p", "p">>>>),
      StrandsSample(<<"1">>, None, <<>>),
      PipsSample(<<"1">>, "Easy", "g", <<"1", ":", "2", "5">>),
      PipsSample(<<"1">>, "Medium", "y", <<"5", ":", "5", "2">>),
      PipsSample(<<"2">>, "Hard", "r", <<"3", "5", ":", "2", "8">>) }

\* configured orders: none, every type, some types
SampleOrders ==
    { <<>>,
      <<"framed_regular", "framed_oneframe", "quolture", "wordle",
        "connections", "strands", "pips", "waffle">>,
      <<"wordle", "framed_regular">>,
      <<"pips", "quolture", "connections">> }

\* parsed records of every type: results of one puzzle number with
\* different content, and results of another number
IdentitySamples ==
    { FramedSample(<<"1">>, <<"cam", SP, "R", SP, "G">>),
      FramedSample(<<"1">>, <<"cam", SP, "G">>),
      OneFrameSample(<<"1">>, <<"cam", SP, "R">>),
      QuoltureSample(<<"1">>, <<<<"film", ":", SP, "W">>>>),
      QuoltureSample(<<"1">>, <<<<"film", ":", SP, "G">>>>),
      WordleSample(<<"1", ",", "2">>, <<<<"B", "Y">>, <<"G", "G">>>>),
      WordleSample(<<"1", "2">>, <<<<"G", "G">>>>),
      WordleSample(<<"1", "3">>, <<<<"G", "G">>>>),
      ConnectionsSample(<<"1">>, <<<<"b", "b">>, <<"p", "p">>>>),
      ConnectionsSample(<<"1">>, <<<<"p", "p">>>>),
      StrandsSample(<<"1">>, <<"\"", "theme", "\"">>,
                    <<<<"U+011F", "U+0178">>, <<"U+00A1">>>>),
      WaffleSample(<<"1">>,
                   [i \in 1..5 |->
                       <<"U+011F", "U+0178", "U+0178", "U+00A9", "U+00E2">>],
                   StreakPrefix \o <<SP, "2">>),
      PipsSample(<<"1">>, "Easy", "g", <<"1", ":", "2", "5">>),
      PipsSample(<<"1">>, "Easy", "g", <<"0", ":", "5", "9">>),
      PipsSample(<<"1">>, "Medium", "y", <<"5", ":", "5", "2">>) }

\* Pips results: two puzzle numbers of three difficulties, and second
\* results of two of them with another time
PipsSamples ==
    { PipsSample(number, difficulty[1], difficulty[2], <<"1", ":", "2", "5">>) :
        number \in {<<"1">>, <<"2">>},
        difficulty \in {<<"Easy", "g">>, <<"Medium", "y">>, <<"Hard", "r">>} }
    \cup { PipsSample(<<"1">>, "Easy", "g", <<"0", ":", "5", "9">>),
           PipsSample(<<"2">>, "Medium", "y", <<"5", SP, "min">>) }

\* the lists of at most n elements of S
SeqsUpTo(S, n) == UNION {[1..k -> S] : k \in 0..n}

(***************************************************************************)
(* Input texts: share texts as the puzzles' sites produce them, and lines  *)
(* that are no puzzle.                                                     *)
(***************************************************************************)
\* the text of these lines, each ended by a newline
Lines(lines) == Concat([i \in 1..Len(lines) |-> lines[i] \o <<NL>>])

WebAddress == <<"https:", "//", "framed.wtf">>

FramedText == Lines(<<<<"Framed", SP, "#", "1">>, <<"cam", SP, "R">>>>)

OneFrameText ==
    Lines(<<<<"Framed", SP, "-", SP, "One", SP, "Frame", SP, "Challenge",
              SP, "#", "1">>,
            <<"cam", SP, "G">>>>)

WordleText ==
    Lines(<<<<"Wordle", SP, "1", ",", "2", SP, "4", "/", "6">>, <<>>,
            <<"sqG", "sqG">>>>)

QuoltureText ==
    Lines(<<<<"\"Quolture\"", SP, SP, "1">>, <<>>, <<"film", ":", SP, "W">>>>)

ConnectionsText ==
    Lines(<<<<"Connections">>, <<"Puzzle", SP, "#", "1">>,
            <<"sqB", "sqB">>, <<"sqP", "sqP">>>>)

StrandsText ==
    Lines(<<<<"Strands", SP, "#", "1">>, <<"\"", "theme", "\"">>,
            <<"ciY", "ciB">>, <<"ciB">>>>)

PipsText ==
    Lines(<<<<"Pips", SP, "#", "1", SP, "Easy", SP, "g">>,
            <<"1", ":", "2", "5">>>>)

WaffleText ==
    Lines(<<<<"#waffle", "1", SP, "1", "/", "5">>, <<>>,
            <<"sqG", "sqG", "sqG", "sqG", "sqG">>,
            <<"sqG", "sqW", "sqG", "sqW", "sqG">>,
            <<"sqG", "sqG", "star", "sqG", "sqG">>,
            <<"sqG", "sqW", "sqG", "sqW", "sqG">>,
            <<"sqG", "sqG", "sqG", "sqG", "sqG">>, <<>>,
            <<"fire", SP, "streak", ":", SP, "2">>>>)

\* the well-formed share text of each supported type, by formatter class
ShareText ==
    [FramedFormatter |-> FramedText,
     FramedOneFrameFormatter |-> OneFrameText,
     WordleFormatter |-> WordleText,
     QuoltureFormatter |-> QuoltureText,
     ConnectionsFormatter |-> ConnectionsText,
     StrandsFormatter |-> StrandsText,
     PipsFormatter |-> PipsText,
     WaffleFormatter |-> WaffleText]

\* pieces of pasted text: share texts with and without their web address,
\* a line that is no puzzle, a header without its grid, alone and with the
\* header of another puzzle behind it, lines that name two puzzles, and a
\* title broken inside a web address
TextPieces ==
    { FramedText \o Lines(<<<<>>, WebAddress>>),
      OneFrameText,
      WordleText,
      QuoltureText \o Lines(<<<<>>, <<"https:", "//", "www.quolture.com">>>>),
      ConnectionsText,
      StrandsText,
      PipsText,
      WaffleText,
      Lines(<<<<"hello">>>>),
      Lines(<<<<"Framed", SP, "#", "5">>>>),
      Lines(<<<<"Framed", SP, "#", "5", SP, "and", SP, "Strands", SP, "#",
                "7">>>>),
      Lines(<<<<"beat", SP, "Wordle", SP, "5", SP, "3", "/", "6", SP, "and",
                SP, "Strands", SP, "#", "7">>>>),
      Lines(<<<<"Framed", SP, "-", SP, "One", SP, "Frame", SP, "Challenge",
                SP, "#", "1", SP, "not", SP, "Framed", SP, "#", "2">>,
              <<"cam">>>>),
      Lines(<<<<"Framed", SP, "#", "3", SP, "https:">>,
              <<"//", "framed.wtf">>>>) }

\* the share texts of two types, each with or without a trailing web
\* address
PairText(a, ua, b, ub) ==
    ShareText[a] \o (IF ua THEN Lines(<<<<>>, WebAddress>>) ELSE <<>>)
        \o ShareText[b] \o (IF ub THEN Lines(<<WebAddress>>) ELSE <<>>)

\* two share texts of different types
PairTexts ==
    { PairText(p[1], ua, p[2], ub) :
        p \in {q \in Formatters \X Formatters : q[1] # q[2]},
        ua \in BOOLEAN, ub \in BOOLEAN }

\* lines of pasted text: headers at and off the start of a line, content,
\* a web address alone and inside a line, a blank line, the marker of
\* split_into_puzzle_blocks, and a line without its newline
LinePieces ==
    { Lines(<<<<"Framed", SP, "#", "1">>>>),
      Lines(<<<<"Wordle", SP, "1", SP, "2", "/", "6">>>>),
      Lines(<<<<"Connections", SP>>>>),
      Lines(<<<<SP, "Strands", SP, "#", "1">>>>),
      Lines(<<<<"cam", SP, "R">>>>),
      Lines(<<WebAddress>>),
      Lines(<<<<"see", SP>> \o WebAddress \o <<SP, "now">>>>),
      Lines(<<<<SP>>>>),
      <<PUZZLE_SEPARATOR>>,
      <<"sqG">> }

\* the concatenation of at most n pieces
TextsOf(Pieces, n) == {Concat(s) : s \in SeqsUpTo(Pieces, n)}

(***************************************************************************)
(* process_puzzle_results, one action per step.                            *)
(***************************************************************************)
\* a call of process_puzzle_results outside interactive_mode, the
\* configuration loaded
FrontEndIdle ==
    /\ config = [exists |-> TRUE, valid |-> TRUE, mapping |-> TRUE,
                 data |-> [puzzle_order |-> puzzle_order]]
    /\ all_puzzles_text = <<>>
    /\ clipboard = <<>>
    /\ accumulated_lines = <<>>
    /\ complete = FALSE
    /\ process_data = None

InitWith(Puzzles, Orders) ==
    /\ input_text = <<>>
    /\ blocks = <<>>
    /\ block_index = 0
    /\ block_formatter = "None"
    /\ puzzle_order \in Orders
    /\ puzzles \in SeqsUpTo(Puzzles, MaxPuzzles)
    /\ sorted_puzzles = <<>>
    /\ deduplicated_puzzles = <<>>
    /\ aggregated_puzzles = <<>>
    /\ output = <<>>
    /\ pc = "detected"
    /\ FrontEndIdle

Init == InitWith(SamplePuzzles, SampleOrders)

\* the runs on results of every type, in detection order
InitIdentity == InitWith(IdentitySamples, {<<>>})

\* the runs on Pips results only
InitPips == InitWith(PipsSamples, {<<>>, <<"wordle", "pips">>})

\* a return of the serialization of the empty list in place of the sentinel
NoPuzzles_returning_empty ==
    /\ pc = "detected"
    /\ puzzles = <<>>
    /\ output' = format_output(puzzles)
    /\ pc' = "done"
    /\ UNCHANGED <<input_text, blocks, block_index, block_formatter,
                   puzzle_order, puzzles, sorted_puzzles,
                   deduplicated_puzzles, aggregated_puzzles,
                   front_end>>

\* if not puzzles: return "No recognized puzzles found in input."
NoPuzzles ==
    /\ pc = "detected"
    /\ puzzles = <<>>
    /\ output' = NO_PUZZLES_MESSAGE
    /\ pc' = "done"
    /\ UNCHANGED <<input_text, blocks, block_index, block_formatter,
                   puzzle_order,
                   puzzles, sorted_puzzles,
                   deduplicated_puzzles, aggregated_puzzles,
                   front_end>>

Sort ==
    /\ pc = "detected"
    /\ puzzles # <<>>
    /\ sorted_puzzles' = sort_puzzles_by_config(puzzles, puzzle_order)
    /\ pc' = "sorted"
    /\ UNCHANGED <<input_text, blocks, block_index, block_formatter,
                   puzzle_order,
                   puzzles, deduplicated_puzzles,
                   aggregated_puzzles, output,
                   front_end>>

Deduplicate ==
    /\ pc = "sorted"
    /\ deduplicated_puzzles' = deduplicate_puzzles(sorted_puzzles)
    /\ pc' = "deduplicated"
    /\ UNCHANGED <<input_text, blocks, block_index, block_formatter,
                   puzzle_order,
                   puzzles, sorted_puzzles,
                   aggregated_puzzles, output,
                   front_end>>

Aggregate ==
    /\ pc = "deduplicated"
    /\ aggregated_puzzles' = aggregate_pips_puzzles(deduplicated_puzzles)
    /\ pc' = "aggregated"
    /\ UNCHANGED <<input_text, blocks, block_index, block_formatter,
                   puzzle_order,
                   puzzles, sorted_puzzles,
                   deduplicated_puzzles, output,
                   front_end>>

FormatOutput ==
    /\ pc = "aggregated"
    /\ output' = format_output(aggregated_puzzles)
    /\ pc' = "done"
    /\ UNCHANGED <<input_text, blocks, block_index, block_formatter,
                   puzzle_order,
                   puzzles, sorted_puzzles,
                   deduplicated_puzzles, aggregated_puzzles,
                   front_end>>

Next == NoPuzzles \/ Sort \/ Deduplicate \/ Aggregate \/ FormatOutput

Spec == Init /\ [][Next]_vars

SpecIdentity == InitIdentity /\ [][Next]_vars

SpecPips == InitPips /\ [][Next]_vars

(***************************************************************************)
(* process_puzzle_results from the input text: segmentation, then the loop *)
(* of detect_and_parse_puzzles, one action per step, then the steps above. *)
(***************************************************************************)
InitText(Texts, Orders) ==
    /\ input_text \in Texts
    /\ puzzle_order \in Orders
    /\ blocks = <<>>
    /\ block_index = 0
    /\ block_formatter = NoFormatter
    /\ puzzles = <<>>
    /\ sorted_puzzles = <<>>
    /\ deduplicated_puzzles = <<>>
    /\ aggregated_puzzles = <<>>
    /\ output = <<>>
    /\ pc = "start"
    /\ FrontEndIdle

\* blocks = split_into_puzzle_blocks(text); detected_puzzles = []
Segment ==
    /\ pc = "start"
    /\ blocks' = split_into_puzzle_blocks(input_text)
    /\ block_index' = 1
    /\ pc' = "detect"
    /\ UNCHANGED <<input_text, block_formatter, puzzle_order, puzzles,
                   sorted_puzzles, deduplicated_puzzles, aggregated_puzzles,
                   output,
                   front_end>>

\* for block in blocks: formatter = get_formatter_for_text(block)
GetFormatter ==
    /\ pc = "detect"
    /\ block_index <= Len(blocks)
    /\ block_formatter' = get_formatter_for_text(blocks[block_index])
    /\ pc' = "parse"
    /\ UNCHANGED <<input_text, blocks, block_index, puzzle_order, puzzles,
                   sorted_puzzles, deduplicated_puzzles, aggregated_puzzles,
                   output,
                   front_end>>

\* a loop body that returns from the detection at the first block that is
\* not detected or not parsed
ParseBlock_returning_at_failure ==
    /\ pc = "parse"
    /\ LET puzzle_data == IF block_formatter # NoFormatter
                          THEN Parse(block_formatter, blocks[block_index])
                          ELSE None
       IN  IF puzzle_data # None
           THEN /\ puzzles' = Append(puzzles,
                                     Detected(block_formatter, puzzle_data))
                /\ block_index' = block_index + 1
           ELSE /\ puzzles' = puzzles
                /\ block_index' = Len(blocks) + 1
    /\ pc' = "detect"
    /\ UNCHANGED <<input_text, blocks, block_formatter, puzzle_order,
                   sorted_puzzles, deduplicated_puzzles, aggregated_puzzles,
                   output,
                   front_end>>

\* a loop body that goes on to the later formatters when the parse of the
\* first accepting one fails
ParseBlock_trying_later_formatters ==
    /\ pc = "parse"
    /\ LET block == blocks[block_index]
           Parsing == {k \in 1..Len(ALL_FORMATTERS) :
                          /\ can_parse(ALL_FORMATTERS[k], block)
                          /\ Parse(ALL_FORMATTERS[k], block) # None}
           first == CHOOSE k \in Parsing : \A j \in Parsing : k <= j
       IN  puzzles' =
              IF Parsing # {}
              THEN Append(puzzles,
                          Detected(ALL_FORMATTERS[first],
                                   Parse(ALL_FORMATTERS[first], block)))
              ELSE puzzles
    /\ block_index' = block_index + 1
    /\ pc' = "detect"
    /\ UNCHANGED <<input_text, blocks, block_formatter, puzzle_order,
                   sorted_puzzles, deduplicated_puzzles, aggregated_puzzles,
                   output, front_end>>

\* the rest of the loop body: if formatter: puzzle_data = parse(block);
\* if puzzle_data: detected_puzzles.append(...)
ParseBlock ==
    /\ pc = "parse"
    /\ puzzles' =
          IF block_formatter # NoFormatter
          THEN LET puzzle_data == Parse(block_formatter, blocks[block_index])
               IN  IF puzzle_data # None
                   THEN Append(puzzles, Detected(block_formatter, puzzle_data))
                   ELSE puzzles
          ELSE puzzles
    /\ block_index' = block_index + 1
    /\ pc' = "detect"
    /\ UNCHANGED <<input_text, blocks, block_formatter, puzzle_order,
                   sorted_puzzles, deduplicated_puzzles, aggregated_puzzles,
                   output,
                   front_end>>

\* return detected_puzzles
DetectDone ==
    /\ pc = "detect"
    /\ block_index > Len(blocks)
    /\ pc' = "detected"
    /\ UNCHANGED <<input_text, blocks, block_index, block_formatter,
                   puzzle_order,
                   puzzles, sorted_puzzles, deduplicated_puzzles,
                   aggregated_puzzles, output,
                   front_end>>

NextText == Segment \/ GetFormatter \/ ParseBlock \/ DetectDone \/ Next

\* the runs on pasted share texts
InitTexts == InitText(TextsOf(TextPieces, MaxPieces), {<<>>})

SpecText == InitTexts /\ [][NextText]_vars

\* the runs on two share texts of different types
InitPairs == InitText(PairTexts, {<<>>})

SpecPairs == InitPairs /\ [][NextText]_vars

\* the runs on pasted lines
InitSegment == InitText(TextsOf(LinePieces, MaxLines), {<<>>})

SpecSegment == InitSegment /\ [][NextText]_vars

(***************************************************************************)
(* BasePuzzleFormatter.process: the parse and the format of one formatter  *)
(* on one text.                                                            *)
(***************************************************************************)
MaxRows == 6

MaxGridLines == 3

\* lines under a Waffle header: five characters of the class of the grid
\* pattern, five Waffle emoji, six characters of the class, a blank line
WaffleRowPieces ==
    { <<"U+011F", "U+0178", "U+0178", "U+00A9", "U+00E2">>,
      <<"sqG", "sqW", "star", "sqW", "sqG">>,
      <<"U+011F", "U+0178", "U+0178", "U+00A9", "U+00E2", "U+00AC">>,
      <<>> }

\* texts with or without the Waffle header, with at most MaxRows lines
\* under it, with or without a streak line
WaffleTexts ==
    { Lines(header \o rows \o streak) :
        header \in {<<>>, <<<<"#waffle", "1", SP, "1", "/", "5">>>>},
        rows \in SeqsUpTo(WaffleRowPieces, MaxRows),
        streak \in {<<>>, <<StreakPrefix \o <<SP, "2">>>>} }

\* lines under a Connections header: rows of four equal and four different
\* squares, of three and of five squares, a line of text, a blank line
ConnectionsRowPieces ==
    { <<"sqB", "sqB", "sqB", "sqB">>,
      <<"sqB", "sqP", "sqG", "sqY">>,
      <<"sqY", "sqY", "sqY">>,
      <<"sqG", "sqG", "sqP", "sqP", "sqG">>,
      <<"hello">>,
      <<>> }

\* texts with or without the 'Puzzle #N' line, with at most MaxGridLines
\* lines under it
ConnectionsTexts ==
    { Lines(<<<<"Connections">>>> \o number \o rows) :
        number \in {<<>>, <<<<"Puzzle", SP, "#", "7">>>>},
        rows \in SeqsUpTo(ConnectionsRowPieces, MaxGridLines) }

InitProcess ==
    /\ \/ block_formatter = "WaffleFormatter" /\ input_text \in WaffleTexts
       \/ /\ block_formatter = "ConnectionsFormatter"
          /\ input_text \in ConnectionsTexts
    /\ puzzle_order = <<>>
    /\ blocks = <<>>
    /\ block_index = 0
    /\ puzzles = <<>>
    /\ sorted_puzzles = <<>>
    /\ deduplicated_puzzles = <<>>
    /\ aggregated_puzzles = <<>>
    /\ output = <<>>
    /\ pc = "process"
    /\ FrontEndIdle

\* puzzle_data = self.parse(text); if puzzle_data: return
\* self.format(puzzle_data); return None
process ==
    /\ pc = "process"
    /\ process_data' = Parse(block_formatter, input_text)
    /\ output' = IF process_data' # None
                 THEN Format(block_formatter, process_data')
                 ELSE None
    /\ pc' = "processed"
    /\ UNCHANGED <<input_text, blocks, block_index, block_formatter,
                   puzzle_order, puzzles, sorted_puzzles,
                   deduplicated_puzzles, aggregated_puzzles, config,
                   all_puzzles_text, clipboard, accumulated_lines, complete>>

SpecProcess == InitProcess /\ [][process]_vars

(***************************************************************************)
(* interactive_mode: the captures from the clipboard, and at Ctrl+C the    *)
(* call of process_puzzle_results, which starts with load_config.          *)
(***************************************************************************)
MaxCaptures == 2

\* config.json: absent, no JSON, JSON that is no mapping, a mapping without
\* the key puzzle_order, a mapping with it
Configs ==
    { [exists |-> FALSE],
      [exists |-> TRUE, valid |-> FALSE],
      [exists |-> TRUE, valid |-> TRUE, mapping |-> FALSE],
      [exists |-> TRUE, valid |-> TRUE, mapping |-> TRUE,
       data |-> [indent |-> <<"2">>]],
      [exists |-> TRUE, valid |-> TRUE, mapping |-> TRUE,
       data |-> [puzzle_order |-> <<"wordle", "framed_regular">>]] }

\* load_config returns: the file exists and holds JSON
Loads(file) == file.exists /\ file.valid

\* config.get('puzzle_order', [])
config_get(data) ==
    IF "puzzle_order" \in DOMAIN data THEN data.puzzle_order ELSE <<>>

\* what the user copies: share texts, a line that is no puzzle, blanks
ClipboardTexts ==
    { WordleText,
      FramedText \o Lines(<<<<>>, WebAddress>>),
      Lines(<<<<"hello">>>>),
      <<SP, NL>> }

InitInteractive(Files) ==
    /\ config \in Files
    /\ all_puzzles_text = <<>>
    /\ clipboard = <<>>
    /\ accumulated_lines = <<>>
    /\ complete = FALSE
    /\ process_data = None
    /\ input_text = <<>>
    /\ puzzle_order = <<>>
    /\ blocks = <<>>
    /\ block_index = 0
    /\ block_formatter = NoFormatter
    /\ puzzles = <<>>
    /\ sorted_puzzles = <<>>
    /\ deduplicated_puzzles = <<>>
    /\ aggregated_puzzles = <<>>
    /\ output = <<>>
    /\ pc = "prompt"

\* the state of process_puzzle_results
pipeline == <<input_text, blocks, block_index, block_formatter, puzzle_order,
              puzzles, sorted_puzzles, deduplicated_puzzles,
              aggregated_puzzles, output>>

\* the user copies a text while the program waits at the prompt
Copy ==
    /\ pc = "prompt"
    /\ \E text \in ClipboardTexts : clipboard' = text
    /\ UNCHANGED <<pipeline, pc, config, all_puzzles_text, accumulated_lines,
                   complete, process_data>>

\* Enter at the prompt: clipboard_content = pyperclip.paste(); continue when
\* it is blank, all_puzzles_text.append(clipboard_content) otherwise
Capture ==
    /\ pc = "prompt"
    /\ Len(all_puzzles_text) < MaxCaptures
    /\ all_puzzles_text' =
          IF strip(clipboard) = <<>> THEN all_puzzles_text
          ELSE Append(all_puzzles_text, clipboard)
    /\ UNCHANGED <<pipeline, pc, config, clipboard, accumulated_lines,
                   complete, process_data>>

\* 'quit' at the prompt: return
Quit ==
    /\ pc = "prompt"
    /\ pc' = "quit"
    /\ UNCHANGED <<pipeline, front_end>>

\* an interrupt that processes the captures and forgets them
Interrupt_clearing_captures ==
    /\ pc = "prompt"
    /\ IF all_puzzles_text = <<>>
       THEN UNCHANGED <<pipeline, pc, all_puzzles_text>>
       ELSE /\ input_text' = Join(all_puzzles_text, <<NL, NL>>)
            /\ all_puzzles_text' = <<>>
            /\ puzzle_order' = <<>>
            /\ blocks' = <<>>
            /\ block_index' = 0
            /\ block_formatter' = NoFormatter
            /\ puzzles' = <<>>
            /\ sorted_puzzles' = <<>>
            /\ deduplicated_puzzles' = <<>>
            /\ aggregated_puzzles' = <<>>
            /\ output' = <<>>
            /\ pc' = "call"
    /\ UNCHANGED <<config, clipboard, accumulated_lines, complete,
                   process_data>>

\* Ctrl+C or the end of the input at the prompt: continue when nothing is
\* captured, else combined_input = '\n\n'.join(all_puzzles_text) and the
\* call of process_puzzle_results(combined_input)
Interrupt ==
    /\ pc = "prompt"
    /\ IF all_puzzles_text = <<>>
       THEN UNCHANGED <<pipeline, pc>>
       ELSE /\ input_text' = Join(all_puzzles_text, <<NL, NL>>)
            /\ puzzle_order' = <<>>
            /\ blocks' = <<>>
            /\ block_index' = 0
            /\ block_formatter' = NoFormatter
            /\ puzzles' = <<>>
            /\ sorted_puzzles' = <<>>
            /\ deduplicated_puzzles' = <<>>
            /\ aggregated_puzzles' = <<>>
            /\ output' = <<>>
            /\ pc' = "call"
    /\ UNCHANGED front_end

\* a load that orders every type when the mapping has no puzzle_order key
LoadConfig_with_default_order ==
    /\ pc = "call"
    /\ IF ~config.exists THEN pc' = "exit" /\ UNCHANGED puzzle_order
       ELSE IF ~config.valid THEN pc' = "exit" /\ UNCHANGED puzzle_order
       ELSE IF ~config.mapping THEN pc' = "exit" /\ UNCHANGED puzzle_order
       ELSE /\ puzzle_order' =
                  IF "puzzle_order" \in DOMAIN config.data
                  THEN config.data.puzzle_order
                  ELSE <<"wordle", "framed_regular", "connections">>
            /\ pc' = "start"
    /\ UNCHANGED <<input_text, blocks, block_index, block_formatter, puzzles,
                   sorted_puzzles, deduplicated_puzzles, aggregated_puzzles,
                   output, front_end>>

\* config = load_config(): sys.exit(1) when config.json is absent or holds
\* no JSON; puzzle_order = config.get('puzzle_order', []), which raises
\* AttributeError when the JSON is no mapping
LoadConfig ==
    /\ pc = "call"
    /\ IF ~config.exists THEN pc' = "exit" /\ UNCHANGED puzzle_order
       ELSE IF ~config.valid THEN pc' = "exit" /\ UNCHANGED puzzle_order
       ELSE IF ~config.mapping THEN pc' = "exit" /\ UNCHANGED puzzle_order
       ELSE /\ puzzle_order' = config_get(config.data)
            /\ pc' = "start"
    /\ UNCHANGED <<input_text, blocks, block_index, block_formatter, puzzles,
                   sorted_puzzles, deduplicated_puzzles, aggregated_puzzles,
                   output, front_end>>

\* pyperclip.copy(output), which may fail, and back to the prompt
CopyResult ==
    /\ pc = "done"
    /\ clipboard' \in {output, clipboard}
    /\ pc' = "prompt"
    /\ UNCHANGED <<pipeline, config, all_puzzles_text, accumulated_lines,
                   complete, process_data>>

NextInteractive ==
    Copy \/ Capture \/ Quit \/ Interrupt \/ LoadConfig \/ CopyResult
        \/ NextText

SpecInteractive == InitInteractive(Configs) /\ [][NextInteractive]_vars

(***************************************************************************)
(* The completion detector is_complete(accumulated_lines), and the reading *)
(* of a paste line by line that it serves.                                 *)
(***************************************************************************)
MaxGuesses == 6

MaxCategoryRows == 8

\* end_marker_pattern of the formatters that have one; wordle.py holds the
\* row of five green squares as the characters of its UTF-8 bytes
end_marker_pattern ==
    [FramedFormatter |-> Lits(<<"https:", "//", "framed.wtf">>),
     FramedOneFrameFormatter |-> Lits(<<"https:", "//", "framed.wtf">>),
     QuoltureFormatter |-> Lits(<<"https:", "//", "www.quolture.com">>),
     WordleFormatter |->
         Lits(Concat([i \in 1..5 |->
                         <<"U+011F", "U+0178", "U+0178", "U+00A9">>])),
     ConnectionsFormatter |-> <<>>,
     WaffleFormatter |-> <<>>]

\* the symbols of a Wordle grid row: black, yellow and green square
WordleSymbols == {"sqK", "sqY", "sqG"}

\* a line matches the end marker of a registered formatter that has one
matches_end_marker(line) ==
    \E k \in 1..Len(ALL_FORMATTERS) :
        /\ ALL_FORMATTERS[k] \in DOMAIN end_marker_pattern
        /\ end_marker_pattern[ALL_FORMATTERS[k]] # <<>>
        /\ re_search(end_marker_pattern[ALL_FORMATTERS[k]], line) # 0

\* the lines that match the grid-row pattern of n symbols of the alphabet
grid_rows(lines, n, alphabet) ==
    LET IsRow(line) == Len(line) = n /\ only_of(alphabet, line)
    IN  SelectSeq(lines, IsRow)

\* a Wordle rule that is content with five rows
wordle_exhausted_at_five(lines) == Len(grid_rows(lines, 5, WordleSymbols)) >= 5

\* the Wordle exhaustion rule: six or more grid rows
wordle_exhausted(lines) == Len(grid_rows(lines, 5, WordleSymbols)) >= 6

\* a Connections rule that asks for four rows and no more
connections_counted_total_only(lines) ==
    Len(grid_rows(lines, 4, ConnectionsEmoji)) >= 4

\* the Connections counting rule on the solid and the mixed rows
connections_counted(lines) ==
    LET rows == grid_rows(lines, 4, ConnectionsEmoji)
        IsSolid(row) == \A k \in 1..4 : row[k] = row[1]
        solid == Len(SelectSeq(rows, IsSolid))
        mixed == Len(rows) - solid
    IN  /\ Len(rows) >= 4
        /\ \/ solid >= 4 /\ mixed <= 3
           \/ mixed >= 4 /\ solid <= 2

\* is_complete(accumulated_lines)
is_complete(lines) ==
    \/ \E i \in 1..Len(lines) : matches_end_marker(lines[i])
    \/ wordle_exhausted(lines)
    \/ connections_counted(lines)

\* the first line of a Wordle and of a Connections paste
WordleTitle == <<"Wordle", SP, "1", SP, "X", "/", "6">>

ConnectionsTitle == <<"Connections">>

\* the lines that follow the first line of a paste: under a Wordle title a
\* row of a failed guess, the row of the solution as pasted and as
\* wordle.py holds it, a blank line; under a Connections title the line of
\* the puzzle number, a solid row, a mixed row
PasteLines(title) ==
    IF title = WordleTitle
    THEN { <<"sqK", "sqY", "sqG", "sqK", "sqK">>,
           <<"sqG", "sqG", "sqG", "sqG", "sqG">>,
           Concat([i \in 1..5 |-> <<"U+011F", "U+0178", "U+0178", "U+00A9">>]),
           <<>> }
    ELSE { <<"Puzzle", SP, "#", "1">>,
           <<"sqB", "sqB", "sqB", "sqB">>,
           <<"sqB", "sqP", "sqG", "sqY">> }

\* the number of lines read of a paste
MaxPasteLines(title) ==
    IF title = WordleTitle THEN 1 + MaxGuesses ELSE 1 + MaxCategoryRows

\* the first line of a paste has been read
InitReading(title) ==
    /\ accumulated_lines = <<title>>
    /\ complete = is_complete(accumulated_lines)
    /\ input_text = <<>>
    /\ config = [exists |-> TRUE, valid |-> TRUE, mapping |-> TRUE,
                 data |-> [puzzle_order |-> <<>>]]
    /\ all_puzzles_text = <<>>
    /\ clipboard = <<>>
    /\ process_data = None
    /\ puzzle_order = <<>>
    /\ blocks = <<>>
    /\ block_index = 0
    /\ block_formatter = NoFormatter
    /\ puzzles = <<>>
    /\ sorted_puzzles = <<>>
    /\ deduplicated_puzzles = <<>>
    /\ aggregated_puzzles = <<>>
    /\ output = <<>>
    /\ pc = "reading"

\* the next line of the paste is accumulated and the detector asked
AccumulateLine ==
    /\ pc = "reading"
    /\ Len(accumulated_lines) < MaxPasteLines(accumulated_lines[1])
    /\ \E line \in PasteLines(accumulated_lines[1]) :
           accumulated_lines' = Append(accumulated_lines, line)
    /\ complete' = is_complete(accumulated_lines')
    /\ UNCHANGED <<pipeline, pc, config, all_puzzles_text, clipboard,
                   process_data>>

SpecWordlePaste == InitReading(WordleTitle) /\ [][AccumulateLine]_vars

SpecConnectionsPaste ==
    InitReading(ConnectionsTitle) /\ [][AccumulateLine]_vars

(***************************************************************************)
(* The runs of process_puzzle_results on records of single-line,           *)
(* multi-line and Pips renderings, under every sample order.               *)
(***************************************************************************)
\* a single-line record, three multi-line records of which two carry the
\* same puzzle number under different types, and two Pips records
OrderingSamples ==
    { FramedSample(<<"1">>, <<"cam", SP, "G">>),
      WordleSample(<<"1", ",", "2">>, <<<<"B", "Y">>, <<"G", "G">>>>),
      ConnectionsSample(<<"1">>, <<<<"b", "b">>, <<"p", "p">>>>),
      StrandsSample(<<"1">>, None, <<>>),
      PipsSample(<<"1">>, "Easy", "g", <<"1", ":", "2", "5">>),
      PipsSample(<<"1">>, "Medium", "y", <<"5", ":", "5", "2">>) }

InitOrdering == InitWith(OrderingSamples, SampleOrders)

SpecOrdering == InitOrdering /\ [][Next]_vars

(***************************************************************************)
(* Properties.                                                             *)
(***************************************************************************)
\* sort_puzzles_by_config has returned in this run
AfterSort == pc \in {"sorted", "deduplicated", "aggregated"}
                \/ (pc = "done" /\ puzzles # <<>>)

\* aggregate_pips_puzzles has returned in this run
AfterAggregate == pc = "aggregated" \/ (pc = "done" /\ puzzles # <<>>)

\* the number of positions of seq holding x
Count(seq, x) == Cardinality({i \in 1..Len(seq) : seq[i] = x})

IsPermutation(a, b) ==
    /\ Len(a) = Len(b)
    /\ \A i \in 1..Len(a) : Count(a, a[i]) = Count(b, a[i])

Configured(name) == \E x \in 1..Len(puzzle_order) : puzzle_order[x] = name

\* type a stands before type b in the configured order
Earlier(a, b) ==
    \E x, y \in 1..Len(puzzle_order) :
        x < y /\ puzzle_order[x] = a /\ puzzle_order[y] = b

InConfiguredOrder(ps) ==
    \A i, j \in 1..Len(ps) :
        Earlier(ps[i].puzzle_name, ps[j].puzzle_name) => i < j

\* C1: the sorted list is a permutation of the recognized puzzles in which
\* a puzzle of a type configured earlier precedes every puzzle of a type
\* configured later, and the aggregated list that is serialized keeps
\* that order.
C1_SortedInConfiguredOrder ==
    /\ AfterSort =>
          /\ IsPermutation(sorted_puzzles, puzzles)
          /\ InConfiguredOrder(sorted_puzzles)
    /\ AfterAggregate => InConfiguredOrder(aggregated_puzzles)

\* three puzzles of three configured types, pasted in reverse configured
\* order, have been processed
C1_Witness ==
    /\ pc = "done"
    /\ Len(puzzles) = 3
    /\ Earlier(puzzles[3].puzzle_name, puzzles[2].puzzle_name)
    /\ Earlier(puzzles[2].puzzle_name, puzzles[1].puzzle_name)
    /\ Len(aggregated_puzzles) = 3

\* the priority class of a puzzle: its type when configured, one class for
\* all unconfigured types
PriorityClass(p) ==
    IF Configured(p.puzzle_name) THEN p.puzzle_name ELSE "unconfigured"

\* the puzzles of ps in class c, in the order of ps
OfClass(ps, c) ==
    LET InClass(p) == PriorityClass(p) = c IN SelectSeq(ps, InClass)

\* C2: after sorting, every puzzle of an unconfigured type comes after
\* every puzzle of a configured type, and the puzzles of equal priority
\* (same configured type, or any unconfigured types) keep the relative
\* order in which they were detected.
C2_UnconfiguredLastAndStable ==
    AfterSort =>
        /\ \A i, j \in 1..Len(sorted_puzzles) :
              (/\ Configured(sorted_puzzles[i].puzzle_name)
               /\ ~Configured(sorted_puzzles[j].puzzle_name)) => i < j
        /\ \A p \in {puzzles[i] : i \in 1..Len(puzzles)} :
              OfClass(sorted_puzzles, PriorityClass(p))
                  = OfClass(puzzles, PriorityClass(p))

\* two puzzles of different unconfigured types were detected around a
\* configured one, and the list has been sorted
C2_Witness ==
    /\ AfterSort
    /\ Len(puzzles) = 3
    /\ ~Configured(puzzles[1].puzzle_name)
    /\ Configured(puzzles[2].puzzle_name)
    /\ ~Configured(puzzles[3].puzzle_name)
    /\ puzzles[1].puzzle_name # puzzles[3].puzzle_name
    /\ sorted_puzzles = <<puzzles[2], puzzles[1], puzzles[3]>>

\* deduplicate_puzzles has returned in this run
AfterDeduplicate == pc \in {"deduplicated", "aggregated"}
                       \/ (pc = "done" /\ puzzles # <<>>)

\* the positions of ps that hold the first record of their identity key
FirstOfKey(ps) ==
    {i \in 1..Len(ps) :
        \A j \in 1..(i - 1) :
            _get_puzzle_identity(ps[j]) # _get_puzzle_identity(ps[i])}

\* the records of ps at the positions of I, in the order of ps
RECURSIVE AtPositions(_, _, _)
AtPositions(ps, I, from) ==
    IF from > Len(ps) THEN <<>>
    ELSE (IF from \in I THEN <<ps[from]>> ELSE <<>>)
             \o AtPositions(ps, I, from + 1)

\* C3: the deduplicated list is the subsequence of the sorted list made of
\* the first record of every identity key, so every key occurs exactly
\* once in it and every later record of a key is dropped.
C3_DeduplicateKeepsFirst ==
    AfterDeduplicate =>
        /\ deduplicated_puzzles
              = AtPositions(sorted_puzzles, FirstOfKey(sorted_puzzles), 1)
        /\ \A i, j \in 1..Len(deduplicated_puzzles) :
              i # j => _get_puzzle_identity(deduplicated_puzzles[i])
                          # _get_puzzle_identity(deduplicated_puzzles[j])
        /\ \A i \in 1..Len(sorted_puzzles) :
              \E k \in 1..Len(deduplicated_puzzles) :
                  _get_puzzle_identity(deduplicated_puzzles[k])
                      = _get_puzzle_identity(sorted_puzzles[i])

\* three records were sorted, the second and third have the key of the
\* first and another content, and only the first was kept
C3_Witness ==
    /\ AfterDeduplicate
    /\ Len(sorted_puzzles) = 3
    /\ sorted_puzzles[2] # sorted_puzzles[1]
    /\ _get_puzzle_identity(sorted_puzzles[2])
          = _get_puzzle_identity(sorted_puzzles[1])
    /\ _get_puzzle_identity(sorted_puzzles[3])
          = _get_puzzle_identity(sorted_puzzles[1])
    /\ deduplicated_puzzles = <<sorted_puzzles[1]>>

\* the puzzle number a result shows in its share text, without the
\* thousands separators
ShownNumber(p) ==
    CASE p.puzzle_name \in {"framed_regular", "framed_oneframe"} ->
            SearchWordNumber("#", FALSE, Digits, p.data.title)
      [] p.puzzle_name = "wordle" ->
            Remove(SearchWordNumber("Wordle", TRUE, Digits \cup {","},
                                    p.data.title), ",")
      [] p.puzzle_name = "quolture" ->
            SearchWordNumber("\"Quolture\"", TRUE, Digits, p.data.lines[1])
      [] OTHER -> p.data.puzzle_number

\* p and q are results of one puzzle: same type, same number and, for
\* Pips, same difficulty
SamePuzzle(p, q) ==
    /\ p.puzzle_name = q.puzzle_name
    /\ ShownNumber(p) = ShownNumber(q)
    /\ p.puzzle_name = "pips" => p.data.difficulty = q.data.difficulty

\* C4 (as claimed): two results of the same type other than Pips and of
\* the same puzzle number have equal identity keys, whatever the rest of
\* their content, and the deduplicated list holds that puzzle once.
C4_SameNumberSameIdentity ==
    AfterDeduplicate =>
        /\ \A i, j \in 1..Len(sorted_puzzles) :
              (/\ sorted_puzzles[i].puzzle_name # "pips"
               /\ SamePuzzle(sorted_puzzles[i], sorted_puzzles[j]))
                  => _get_puzzle_identity(sorted_puzzles[i])
                        = _get_puzzle_identity(sorted_puzzles[j])
        /\ \A i, j \in 1..Len(deduplicated_puzzles) :
              (/\ deduplicated_puzzles[i].puzzle_name # "pips"
               /\ SamePuzzle(deduplicated_puzzles[i], deduplicated_puzzles[j]))
                  => i = j

\* C5: a record is dropped only if an earlier record is a result of the
\* same puzzle (type, number and, for Pips, difficulty): the first result
\* of every puzzle is kept.
C5_DropsOnlySamePuzzle ==
    AfterDeduplicate =>
        \A i \in 1..Len(sorted_puzzles) :
            (\A j \in 1..(i - 1) : ~SamePuzzle(sorted_puzzles[j],
                                               sorted_puzzles[i]))
                => \E k \in 1..Len(deduplicated_puzzles) :
                       deduplicated_puzzles[k] = sorted_puzzles[i]

\* two Pips results of one number and different difficulties and a second
\* result of the first puzzle were deduplicated: the two are kept, the
\* third is dropped
C5_Witness ==
    /\ AfterDeduplicate
    /\ Len(sorted_puzzles) = 3
    /\ sorted_puzzles[1].puzzle_name = "pips"
    /\ sorted_puzzles[2].puzzle_name = "pips"
    /\ ShownNumber(sorted_puzzles[1]) = ShownNumber(sorted_puzzles[2])
    /\ sorted_puzzles[1].data.difficulty # sorted_puzzles[2].data.difficulty
    /\ SamePuzzle(sorted_puzzles[1], sorted_puzzles[3])
    /\ sorted_puzzles[1] # sorted_puzzles[3]
    /\ deduplicated_puzzles = <<sorted_puzzles[1], sorted_puzzles[2]>>

IsPips(p) == p.puzzle_name = "pips"

AllPips(ps) == \A i \in 1..Len(ps) : IsPips(ps[i])

DifficultyNames == <<"Easy", "Medium", "Hard">>

\* the difficulties of the results of ps
DifficultiesOf(ps) == {ps[i].data.difficulty : i \in 1..Len(ps)}

\* one result per difficulty
DistinctDifficulties(ps) ==
    \A i, j \in 1..Len(ps) :
        i # j => ps[i].data.difficulty # ps[j].data.difficulty

\* the difficulty names a text shows, in the order of the text
DifficultiesShown(text) ==
    LET IsName(a) == a \in {"Easy", "Medium", "Hard"}
    IN  SelectSeq(text, IsName)

Orderings(n) ==
    {f \in [1..n -> 1..n] : \A i, j \in 1..n : i # j => f[i] # f[j]}

\* the combined Pips text of a run on the results ps
CombinedText(ps) ==
    aggregate_pips_puzzles(deduplicate_puzzles(
        sort_puzzles_by_config(ps, puzzle_order)))[1].formatted

OfDifficulty(ps, d) ==
    LET Has(p) == p.data.difficulty = d IN SelectSeq(ps, Has)

\* the members of a group after difficulty sorting
ByDifficulty(ps) ==
    OfDifficulty(ps, "Easy") \o OfDifficulty(ps, "Medium")
        \o OfDifficulty(ps, "Hard")

\* 'Difficulty Symbol Time' of a member
PipsSuffix(p) == <<p.data.difficulty, SP, p.data.emoji, SP>> \o p.data.time

\* ' | ' and the suffix of every member of ps from the k-th on
RECURSIVE LaterSuffixes(_, _)
LaterSuffixes(ps, k) ==
    IF k > Len(ps) THEN <<>>
    ELSE <<SP, "|", SP>> \o PipsSuffix(ps[k]) \o LaterSuffixes(ps, k + 1)

RECURSIVE ExpectedLines(_, _)
ExpectedLines(ps, k) ==
    IF k > Len(ps) THEN <<>>
    ELSE LET lines == Split(Rendered(ps[k]), NL, -1)
             blank == k > 1 /\ (Len(lines) > 1 \/ "formatted" \in DOMAIN ps[k])
         IN  (IF blank THEN << <<>> >> ELSE <<>>) \o lines
                 \o ExpectedLines(ps, k + 1)

\* C10: the output is the rendered records joined by newlines, with exactly
\* one blank line before a record if and only if it is not the first and
\* its text spans several lines or it is the combined Pips record; there
\* is no blank line between consecutive single-line, non-aggregate records.
C10_BlankLineBeforeMultilineOrPips ==
    (pc = "done" /\ puzzles # <<>>) =>
        Split(output, NL, -1) = ExpectedLines(aggregated_puzzles, 1)

\* two single-line records and the combined Pips record were serialized:
\* four lines, the third one blank
C10_Witness ==
    /\ pc = "done"
    /\ Len(aggregated_puzzles) = 3
    /\ ~IsPips(aggregated_puzzles[1])
    /\ ~IsPips(aggregated_puzzles[2])
    /\ "formatted" \in DOMAIN aggregated_puzzles[3]
    /\ Split(output, NL, -1)
          = <<Rendered(aggregated_puzzles[1]), Rendered(aggregated_puzzles[2]),
              <<>>, Rendered(aggregated_puzzles[3])>>

\* split_into_puzzle_blocks has returned in a run that started from a text
AfterSegment == pc # "start" /\ block_index > 0

\* detect_and_parse_puzzles has returned in a run that started from a text
AfterDetect == AfterSegment /\ pc \notin {"detect", "parse"}

\* the position of the first registered formatter whose predicate accepts
\* the block, 0 when none does
FirstAccepting(block) ==
    LET Acc == {k \in 1..Len(ALL_FORMATTERS) :
                   can_parse(ALL_FORMATTERS[k], block)}
    IN  IF Acc = {} THEN 0 ELSE CHOOSE k \in Acc : \A j \in Acc : k <= j

\* the block is detected by a registered formatter, which parses it
Recognized(block) ==
    /\ FirstAccepting(block) # 0
    /\ Parse(ALL_FORMATTERS[FirstAccepting(block)], block) # None

HasWebAddress(text) == re_search(url_pattern, text) # 0

\* the texts a parsed record holds
TextsOfRecord(data) ==
    {data.raw_text}
        \cup (IF "title" \in DOMAIN data THEN {data.title} ELSE {})
        \cup (IF "emoji_grid" \in DOMAIN data THEN {data.emoji_grid} ELSE {})
        \cup (IF "lines" \in DOMAIN data
              THEN {data.lines[k] : k \in 1..Len(data.lines)} ELSE {})
        \cup (IF "grid_lines" \in DOMAIN data
              THEN {data.grid_lines[k] : k \in 1..Len(data.grid_lines)}
              ELSE {})

\* C12: no candidate block, no parsed record and no line of the output
\* holds a web address.
C12_NoWebAddressAnywhere ==
    /\ \A i \in 1..Len(blocks) : ~HasWebAddress(blocks[i])
    /\ \A i \in 1..Len(puzzles) :
          \A text \in TextsOfRecord(puzzles[i].data) : ~HasWebAddress(text)
    /\ (AfterSegment /\ pc = "done") =>
          LET lines == Split(output, NL, -1)
          IN  \A k \in 1..Len(lines) : ~HasWebAddress(lines[k])

\* the blocks bs occur in text one after the other, from position from on
RECURSIVE OccurInOrder(_, _, _)
OccurInOrder(bs, text, from) ==
    \/ bs = <<>>
    \/ \E p \in from..(Len(text) - Len(Head(bs)) + 1) :
          /\ SubSeq(text, p, p + Len(Head(bs)) - 1) = Head(bs)
          /\ OccurInOrder(Tail(bs), text, p + Len(Head(bs)))

\* C13: every block split_into_puzzle_blocks returns is non-empty, starts
\* and ends with an atom that is not whitespace, and the blocks are pieces
\* of the input in the order of their position in it.
C13_BlocksTrimmedNonEmptyInOrder ==
    AfterSegment =>
        /\ \A i \in 1..Len(blocks) :
              /\ blocks[i] # <<>>
              /\ blocks[i][1] \notin Whitespace
              /\ blocks[i][Len(blocks[i])] \notin Whitespace
        /\ OccurInOrder(blocks, input_text, 1)

\* a web address of the input is directly followed by a header: the text
\* between the two breaks is blank, and the input has two blocks
C13_Witness ==
    /\ AfterSegment
    /\ Len(blocks) >= 2
    /\ \E i \in 1..Len(input_text) :
          /\ MatchAt(url_pattern, input_text, i)
          /\ LET stop == MatchStop(url_pattern, input_text, i)
             IN  /\ stop + 1 <= Len(input_text)
                 /\ input_text[stop] = NL
                 /\ \E h \in 1..Len(puzzle_headers) :
                       MatchAt(puzzle_headers[h], input_text, stop + 1)

\* no known puzzle header stands at the start of a line of the text
NoHeader(text) ==
    \A i \in 1..Len(text) : \A h \in 1..Len(puzzle_headers) :
        ~(AtLineStart(text, i) /\ MatchAt(puzzle_headers[h], text, i))

\* C14: for an input that is not blank and has no puzzle header at the
\* start of a line and no web address, split_into_puzzle_blocks returns
\* exactly one block, the whole input trimmed.
C14_SingleBlockWithoutBreaks ==
    (/\ AfterSegment
     /\ strip(input_text) # <<>>
     /\ NoHeader(input_text)
     /\ ~HasWebAddress(input_text)) =>
        blocks = <<strip(input_text)>>

\* C15: for two well-formed share texts of different supported types,
\* pasted one after the other with or without a web address after each,
\* split_into_puzzle_blocks returns exactly two blocks, and each is
\* detected and parsed as its own type.
C15_TwoPuzzlesTwoBlocks ==
    \A p \in Formatters \X Formatters : \A ua, ub \in BOOLEAN :
        (p[1] # p[2] /\ input_text = PairText(p[1], ua, p[2], ub)) =>
            /\ AfterSegment => Len(blocks) = 2
            /\ AfterDetect =>
                  /\ Len(puzzles) = 2
                  /\ puzzles[1].formatter = p[1]
                  /\ puzzles[2].formatter = p[2]

\* the lines of the text that are not blank, trimmed
InkLines(text) == _parse_lines(text, TRUE)

\* the line is a web address and nothing else
IsWebAddress(line) ==
    MatchAt(url_pattern, line, 1)
        /\ MatchStop(url_pattern, line, 1) = Len(line) + 1

\* the lines of the blocks, block after block
RECURSIVE LinesOfBlocks(_)
LinesOfBlocks(bs) ==
    IF bs = <<>> THEN <<>>
    ELSE InkLines(Head(bs)) \o LinesOfBlocks(Tail(bs))

\* C16: when every web address of the input stands alone on its line, the
\* lines of the input that are neither blank nor a web address are the
\* lines of the returned blocks, each in one block and in input order.
C16_NoLineLost ==
    LET lines == InkLines(input_text)
        Content(line) == ~IsWebAddress(line)
    IN  (/\ AfterSegment
         /\ \A k \in 1..Len(lines) :
               HasWebAddress(lines[k]) => IsWebAddress(lines[k])) =>
            LinesOfBlocks(blocks) = SelectSeq(lines, Content)

\* C17: the formatter get_formatter_for_text returns for a block is the
\* first of the registry, in registration order, whose predicate accepts
\* the block, and None exactly when no registered predicate accepts it.
C17_FirstAcceptingInRegistrationOrder ==
    (pc = "parse") =>
        LET block == blocks[block_index]
        IN  /\ block_formatter = NoFormatter
                  <=> \A k \in 1..Len(ALL_FORMATTERS) :
                          ~can_parse(ALL_FORMATTERS[k], block)
            /\ block_formatter # NoFormatter =>
                  \E k \in 1..Len(ALL_FORMATTERS) :
                      /\ block_formatter = ALL_FORMATTERS[k]
                      /\ can_parse(ALL_FORMATTERS[k], block)
                      /\ \A j \in 1..(k - 1) :
                            ~can_parse(ALL_FORMATTERS[j], block)

\* the lookup has returned the earlier of two registered formatters whose
\* predicates both accept the block
C17_Witness ==
    /\ pc = "parse"
    /\ \E j, k \in 1..Len(ALL_FORMATTERS) :
          /\ j < k
          /\ block_formatter = ALL_FORMATTERS[j]
          /\ can_parse(ALL_FORMATTERS[k], blocks[block_index])

\* the registry with the two Framed formatters in the other order
FramedSwapped ==
    [k \in 1..Len(ALL_FORMATTERS) |->
        CASE ALL_FORMATTERS[k] = "FramedFormatter" -> "FramedOneFrameFormatter"
          [] ALL_FORMATTERS[k] = "FramedOneFrameFormatter" -> "FramedFormatter"
          [] OTHER -> ALL_FORMATTERS[k]]

\* C18: no block is accepted by both Framed predicates; a block that holds
\* the One Frame Challenge header is not classified as regular Framed, a
\* block that does not hold it is not classified as One Frame, and the
\* classification is the same with the two formatters registered in the
\* other order.
C18_FramedPredicatesExclusive ==
    (pc = "parse") =>
        LET block == blocks[block_index]
            one_frame ==
                re_search(detection_pattern["FramedOneFrameFormatter"],
                          block) # 0
        IN  /\ ~(can_parse("FramedFormatter", block)
                    /\ can_parse("FramedOneFrameFormatter", block))
            /\ one_frame => block_formatter # "FramedFormatter"
            /\ ~one_frame => block_formatter # "FramedOneFrameFormatter"
            /\ block_formatter = formatter_loop(FramedSwapped, block)

\* a block that holds the One Frame Challenge header and a regular Framed
\* title has been classified as One Frame
C18_Witness ==
    /\ pc = "parse"
    /\ block_formatter = "FramedOneFrameFormatter"
    /\ re_search(detection_pattern["FramedFormatter"],
                 blocks[block_index]) # 0

\* C19: every supported type has exactly one formatter in the registry,
\* and the lookup returns the formatter of its type for a well-formed
\* share text of each supported type, Pips and Waffle among them.
C19_EveryTypeRegisteredOnce ==
    (pc = "parse") =>
        \A f \in Formatters :
            blocks[block_index] = strip(ShareText[f]) =>
                /\ Count(ALL_FORMATTERS, f) = 1
                /\ block_formatter = f

\* the records of the recognized blocks among bs, in the order of bs
ExpectedRecords(bs) ==
    LET recognized == SelectSeq(bs, Recognized)
    IN  [i \in 1..Len(recognized) |->
            LET f == ALL_FORMATTERS[FirstAccepting(recognized[i])]
            IN  Detected(f, Parse(f, recognized[i]))]

\* C20: detect_and_parse_puzzles returns, in block order, one record for
\* every block that is detected and parsed, and nothing for a block that
\* no formatter detects or that its formatter fails to parse.
C20_UnrecognizedBlocksDropped ==
    /\ (pc = "detect") =>
          puzzles = ExpectedRecords(SubSeq(blocks, 1, block_index - 1))
    /\ (pc = "detected") => puzzles = ExpectedRecords(blocks)

\* the detection has returned the record of a block that follows a block
\* no formatter detects or a block its formatter fails to parse
C20_Witness ==
    /\ AfterDetect
    /\ puzzles # <<>>
    /\ \E i, j \in 1..Len(blocks) :
          /\ i < j
          /\ ~Recognized(blocks[i])
          /\ Recognized(blocks[j])

(***************************************************************************)
(* C21, C24, C28: the configuration and the captures (SpecInteractive).    *)
(***************************************************************************)
\* C21: a missing or malformed configuration ends the run before any input
\* is processed: when the run ends on it, no puzzle has been captured.
C21_ConfigErrorAtStartup == pc = "exit" => all_puzzles_text = <<>>

\* config.json holds a mapping without the key puzzle_order
NoOrderKey ==
    /\ Loads(config)
    /\ config.mapping
    /\ "puzzle_order" \notin DOMAIN config.data

\* process_puzzle_results is past the load of the configuration
Loaded ==
    pc \in {"start", "detect", "parse", "detected", "sorted", "deduplicated",
            "aggregated", "done"}

\* C24: without the key puzzle_order the configured order is empty, every
\* type is unconfigured, and the output is the serialization of the
\* deduplicated and aggregated puzzles in detection order.
C24_NoOrderKeyIsEmptyOrder ==
    (NoOrderKey /\ Loaded) =>
        /\ puzzle_order = <<>>
        /\ \A i \in 1..Len(puzzles) :
               get_sort_key(puzzles[i], puzzle_order) = UNKNOWN_PUZZLE_PRIORITY
        /\ AfterSort => sorted_puzzles = puzzles
        /\ (pc = "done" /\ puzzles # <<>>) =>
               output = format_output(
                            aggregate_pips_puzzles(deduplicate_puzzles(puzzles)))

\* without the key, a Framed and a Wordle result were serialized in the
\* order of their detection
C24_Witness ==
    /\ NoOrderKey
    /\ pc = "done"
    /\ Len(puzzles) = 2
    /\ puzzles[1].puzzle_name = "framed_regular"
    /\ puzzles[2].puzzle_name = "wordle"
    /\ aggregated_puzzles = puzzles

\* a is the start of b
IsPrefix(a, b) == Len(a) <= Len(b) /\ SubSeq(b, 1, Len(a)) = a

\* C28: the captures only grow: a blank clipboard is never appended, a
\* clipboard that is not blank can always be appended, recognized or not,
\* nothing is removed by the formatting, and the text processed at Ctrl+C
\* is the join with '\n\n' of all captures in their order; Ctrl+C without
\* captures processes nothing, and 'quit' ends the loop without processing.
C28_CapturesOnlyGrow ==
    /\ [](/\ \A i \in 1..Len(all_puzzles_text) :
                strip(all_puzzles_text[i]) # <<>>
          /\ (pc = "prompt" /\ strip(clipboard) # <<>>
                  /\ Len(all_puzzles_text) < MaxCaptures)
                => ENABLED (Capture /\ all_puzzles_text'
                                = Append(all_puzzles_text, clipboard))
          /\ pc \notin {"prompt", "quit"}
                => /\ all_puzzles_text # <<>>
                   /\ input_text = Join(all_puzzles_text, <<NL, NL>>))
    /\ [][/\ IsPrefix(all_puzzles_text, all_puzzles_text')
          /\ all_puzzles_text' # all_puzzles_text
                => all_puzzles_text' = Append(all_puzzles_text, clipboard)
          /\ (pc = "prompt" /\ all_puzzles_text = <<>>)
                => /\ pc' \in {"prompt", "quit"}
                   /\ UNCHANGED pipeline
                   /\ clipboard' \in ClipboardTexts \cup {clipboard}
          /\ pc' = "quit" => UNCHANGED <<pipeline, front_end>>
          /\ pc # "quit"]_vars

\* the result of a first formatting was captured behind the first capture
\* and both are processed
C28_Witness ==
    /\ pc = "done"
    /\ Len(all_puzzles_text) = 2
    /\ all_puzzles_text[2] \notin ClipboardTexts
    /\ get_formatter_for_text(all_puzzles_text[1]) = NoFormatter
    /\ input_text = Join(all_puzzles_text, <<NL, NL>>)

(***************************************************************************)
(* C22..C23: the counting rules of the completion detector                 *)
(* (SpecWordlePaste, SpecConnectionsPaste).                                *)
(***************************************************************************)
\* no accumulated line matches an end marker
NoEndMarker ==
    \A i \in 1..Len(accumulated_lines) :
        ~matches_end_marker(accumulated_lines[i])

\* the accumulated lines that are rows of five symbols
GuessRows == grid_rows(accumulated_lines, 5, WordleSymbols)

\* C22: when no accumulated line matches an end marker, is_complete is true
\* with six or more lines that match the five-symbol grid-row pattern, none
\* of them a row of the solution needed, and false with five such lines.
C22_WordleExhaustionRule ==
    (accumulated_lines # <<>> /\ NoEndMarker) =>
        /\ Len(GuessRows) >= 6 => complete
        /\ Len(GuessRows) = 5 => ~complete

\* six failed guesses are accumulated
C22_Witness ==
    /\ NoEndMarker
    /\ Len(GuessRows) = 6
    /\ \A i \in 1..6 : \E k \in 1..5 : GuessRows[i][k] # "sqG"
    /\ complete

\* the solid and the mixed rows among the accumulated rows of four symbols
SolidRows ==
    LET IsSolid(row) == \A k \in 1..4 : row[k] = row[1]
    IN  Len(SelectSeq(grid_rows(accumulated_lines, 4, ConnectionsEmoji),
                      IsSolid))

MixedRows ==
    Len(grid_rows(accumulated_lines, 4, ConnectionsEmoji)) - SolidRows

\* C23: when no accumulated line matches an end marker, is_complete is true
\* exactly when the solid rows s and the mixed rows m are at least four
\* together and either s >= 4 and m <= 3, or m >= 4 and s <= 2.
C23_ConnectionsCountingRule ==
    (accumulated_lines # <<>> /\ NoEndMarker) =>
        /\ complete <=>
              /\ SolidRows + MixedRows >= 4
              /\ \/ SolidRows >= 4 /\ MixedRows <= 3
                 \/ MixedRows >= 4 /\ SolidRows <= 2
        /\ SolidRows + MixedRows < 4 => ~complete
        /\ (SolidRows = 4 /\ MixedRows = 0) => complete

\* four rows and more are accumulated and the detector says no: three
\* solid rows and three mixed ones
C23_Witness ==
    /\ NoEndMarker
    /\ SolidRows = 3
    /\ MixedRows = 3
    /\ ~complete

(***************************************************************************)
(* C25..C26: the parse of one formatter (SpecProcess).                     *)
(***************************************************************************)
\* the symbols of a Waffle grid: green square, white square, star
WaffleSymbols == {"sqG", "sqW", "star"}

\* a grid row of five symbols each
WaffleRow(line) == Len(line) = 5 /\ only_of(WaffleSymbols, line)

\* the text holds a '#waffleN k/5' header
HasWaffleHeader(text) == re_search(detection_pattern["WaffleFormatter"], text) # 0

\* C25: WaffleFormatter.parse returns a record only when the block holds a
\* '#waffleN k/5' header and exactly five grid rows of five symbols each,
\* blank lines not counted, and the record then has exactly these five
\* rows as grid lines; with fewer or more such rows it returns None.
C25_WaffleNeedsFiveRows ==
    (pc = "processed" /\ block_formatter = "WaffleFormatter")
        => LET rows == SelectSeq(_parse_lines(input_text, FALSE), WaffleRow)
           IN  /\ Len(rows) # 5 => process_data = None
               /\ process_data # None
                     => /\ HasWaffleHeader(input_text)
                        /\ Len(process_data.grid_lines) = 5
                        /\ process_data.grid_lines = rows

\* a row of exactly four symbols of the colour alphabet
ConnectionsRow(line) == Len(line) = 4 /\ only_of(ConnectionsEmoji, line)

\* a line of the block holds 'Puzzle #N'
HasPuzzleNumber(text) ==
    first_line_with(Lits(<<"Puzzle", SP, "#">>) \o <<Plus(Digits)>>,
                    _parse_lines(text, TRUE)) # 0

\* C26: ConnectionsFormatter.parse returns None when no 'Puzzle #N' line is
\* found, and otherwise a record whose grid lines are, in input order and
\* in any number, exactly the lines of exactly four symbols of the
\* four-symbol colour alphabet.
C26_ConnectionsGridLines ==
    (pc = "processed" /\ block_formatter = "ConnectionsFormatter")
        => IF ~HasPuzzleNumber(input_text) THEN process_data = None
           ELSE /\ process_data # None
                /\ process_data.grid_lines =
                       SelectSeq(_parse_lines(input_text, TRUE), ConnectionsRow)

(***************************************************************************)
(* C27: sorting and deduplication (SpecOrdering).                          *)
(***************************************************************************)
\* C27: sorting and deduplication commute: the deduplicated list of the
\* sorted puzzles is the sorted list of the deduplicated puzzles, so the
\* record kept of each identity is the earliest detected one.
C27_SortAndDeduplicateCommute ==
    AfterDeduplicate =>
        LET identity == [k \in 1..Len(puzzles) |->
                            _get_puzzle_identity(puzzles[k])]
        IN  /\ deduplicated_puzzles =
                   sort_puzzles_by_config(deduplicate_puzzles(puzzles),
                                          puzzle_order)
            /\ \A i \in 1..Len(deduplicated_puzzles) :
                   \E k \in 1..Len(puzzles) :
                       /\ puzzles[k] = deduplicated_puzzles[i]
                       /\ \A j \in 1..(k - 1) : identity[j] # identity[k]

\* the sort has moved a record in front of an earlier one and the
\* deduplication has dropped a record
C27_Witness ==
    /\ pc = "deduplicated"
    /\ sorted_puzzles # puzzles
    /\ Len(deduplicated_puzzles) < Len(sorted_puzzles)
    /\ deduplicate_puzzles(puzzles) # deduplicated_puzzles

(***************************************************************************)
(* C29: one formatter a block (SpecText).                                  *)
(***************************************************************************)
\* a formatter registered behind the given one accepts and parses the block
LaterFormatterParses(formatter, block) ==
    \E k, j \in 1..Len(ALL_FORMATTERS) :
        /\ ALL_FORMATTERS[k] = formatter
        /\ k < j
        /\ can_parse(ALL_FORMATTERS[j], block)
        /\ Parse(ALL_FORMATTERS[j], block) # None

\* C29: for each block the loop of detect_and_parse_puzzles attempts one
\* formatter at most, the first that accepts the block; when its parse
\* fails the block gives no record, whatever a later formatter would give,
\* and there are never more records than blocks gone through.
C29_OneFormatterPerBlock ==
    /\ (pc = "detect" /\ block_index > 1) =>
          LET block == blocks[block_index - 1]
              first == FirstAccepting(block)
          IN  /\ block_formatter = IF first = 0 THEN NoFormatter
                                    ELSE ALL_FORMATTERS[first]
              /\ Len(puzzles) <= block_index - 1
              /\ (block_formatter # NoFormatter
                      /\ Parse(block_formatter, block) = None)
                    => \A i \in 1..Len(puzzles) :
                           puzzles[i].data.raw_text # block
    /\ AfterDetect => Len(puzzles) <= Len(blocks)

\* the parse of the first accepting formatter has failed on a block that a
\* later formatter accepts and parses
C29_Witness ==
    /\ pc = "detect"
    /\ block_index > 1
    /\ block_formatter # NoFormatter
    /\ Parse(block_formatter, blocks[block_index - 1]) = None
    /\ LaterFormatterParses(block_formatter, blocks[block_index - 1])

(***************************************************************************)
(* C30: the separators of format_output (SpecOrdering).                    *)
(***************************************************************************)
\* the record is rendered on several lines
IsMultiline(p) == Contains(Rendered(p), NL)

\* format_output puts a separator before the k-th record
Separated(ps, k) == k > 1 /\ (IsMultiline(ps[k]) \/ ps[k].puzzle_name = "pips")

\* the number of the output line that the k-th record starts on
RECURSIVE FirstLineOf(_, _)
FirstLineOf(ps, k) ==
    IF k = 1 THEN 1
    ELSE FirstLineOf(ps, k - 1) + Len(Split(Rendered(ps[k - 1]), NL, -1))
             + (IF Separated(ps, k) THEN 1 ELSE 0)

\* C30: format_output places separators only before records: the output
\* neither starts nor ends with a blank line, a single-line record that is
\* not Pips follows the last line of a multi-line record directly, and the
\* blank lines of the output are as many as the records, the first
\* excepted, that are multi-line or Pips.
C30_SeparatorsOnlyBeforeRecords ==
    (pc = "done" /\ puzzles # <<>>) =>
        LET ps == aggregated_puzzles
            lines == Split(output, NL, -1)
            Blank == {n \in 1..Len(lines) : lines[n] = <<>>}
        IN  /\ lines[1] # <<>>
            /\ lines[Len(lines)] # <<>>
            /\ Cardinality(Blank)
                   = Cardinality({k \in 1..Len(ps) : Separated(ps, k)})
            /\ \A k \in 2..Len(ps) :
                   (IsMultiline(ps[k - 1]) /\ ~Separated(ps, k)) =>
                       LET before == Split(Rendered(ps[k - 1]), NL, -1)
                           n == FirstLineOf(ps, k)
                       IN  /\ lines[n] = Rendered(ps[k])
                           /\ lines[n - 1] = before[Len(before)]

\* a single-line record that is not Pips was serialized behind a multi-line
\* record, and a separated record behind it
C30_Witness ==
    /\ pc = "done"
    /\ Len(aggregated_puzzles) = 3
    /\ IsMultiline(aggregated_puzzles[1])
    /\ ~Separated(aggregated_puzzles, 2)
    /\ Separated(aggregated_puzzles, 3)

====
